---------------------------- MODULE Spec2Model ----------------------------
(***************************************************************************)
(* Model of hexbyte-lab/AI-Chatbot: the streaming generator                *)
(* (src/core/generator.py), the tkinter controller (src/ui/chat_window.py),*)
(* the message log (src/core/conversation.py) and the SQLite session store *)
(* (src/storage/database.py, src/storage/session_manager.py).              *)
(*                                                                         *)
(* Text is a sequence of one-character strings, so that concatenation,     *)
(* split("[/INST]") and strip() are computed character by character.       *)
(***************************************************************************)
EXTENDS Naturals, Integers, Sequences, FiniteSets, TLC

\* ------------------------------------------------------------------ bounds
\* Longest stream (number of increments) the backend produces in one call.
MaxIncrements == 3
\* Number of worker threads the tkinter controller may start.
MaxWorkers == 2
\* Length of the stream of a worker started by the tkinter controller.
MaxGuiIncrements == 2
\* Longest message log the ConversationManager is driven to on its own.
MaxLog == 3
\* Session rows ever inserted, message rows ever inserted, and clock ticks.
MaxSessions == 1
MaxMessages == 2
MaxClock == 1
\* Rows (sessions and messages together) the caller of SpecManager inserts.
MaxRows == 3

\* -------------------------------------------------------------------- text
\* Characters Python's str.strip() removes (the ones the model uses).
Whitespace == {" ", "\n"}

\* The marker generate_streaming splits on: "[/INST]".
Marker == <<"[", "/", "I", "N", "S", "T", "]">>

\* The increments a stream is made of: a word, a blank, the two halves of the
\* marker (a marker may be assembled from several increments).
Increments ==
    { <<"H", "i">>, <<" ">>, <<"[", "/", "I", "N">>, <<"S", "T", "]">> }

\* f"Error: {str(e)}": a text no stream can produce.
ErrorText == <<"E", "r", "r", "o", "r", ":">>

\* "".join of a sequence of texts, in order.
RECURSIVE Concat(_)
Concat(parts) ==
    IF parts = << >> THEN << >> ELSE Head(parts) \o Concat(Tail(parts))

\* The positions at which Marker occurs in s.
MarkerPositions(s) ==
    { i \in 1..Len(s) :
        /\ i + Len(Marker) - 1 <= Len(s)
        /\ SubSeq(s, i, i + Len(Marker) - 1) = Marker }

\* s.split("[/INST]")[-1]: the text after the last occurrence of the marker.
AfterLastMarker(s) ==
    LET ps == MarkerPositions(s)
        last == CHOOSE i \in ps : \A j \in ps : j <= i
    IN  SubSeq(s, last + Len(Marker), Len(s))

\* str.strip(): drop leading and trailing whitespace.
Strip(s) ==
    LET solid == { i \in 1..Len(s) : s[i] \notin Whitespace }
    IN  IF solid = {} THEN << >>
        ELSE LET lo == CHOOSE i \in solid : \A j \in solid : i <= j
                 hi == CHOOSE i \in solid : \A j \in solid : j <= i
             IN  SubSeq(s, lo, hi)

\* A plausible slip: the extracted text is returned without strip().
ExtractNoStrip(full_response) ==
    IF MarkerPositions(full_response) # {}
    THEN AfterLastMarker(full_response)
    ELSE full_response

\* generator.py 74-78: "Extract assistant response".
Extract(full_response) ==
    IF MarkerPositions(full_response) # {}
    THEN Strip(AfterLastMarker(full_response))
    ELSE Strip(full_response)

\* A plausible slip: the consumer takes the newest queued increment.
StreamerGetNewest(q) == << q[Len(q)], SubSeq(q, 1, Len(q) - 1) >>

\* TextIteratorStreamer.__next__ on a non-empty queue: <<item, rest>>, FIFO.
StreamerGet(q) == << Head(q), Tail(q) >>

\* All streams of at most n increments.
Streams(n) == UNION { [1..k -> Increments] : k \in 0..n }

\* ------------------------------------------------------------------- state
VARIABLES
    \* ResponseGenerator (src/core/generator.py)
    stop_flag,      \* self.stop_flag, shared by every call on the generator
    pc,             \* per call: the statement generate_streaming is at
    stream,         \* per call: the increments model.generate will produce
    backend,        \* per call: the generation thread ("off", "running", "finished")
    put,            \* per call: how many increments the thread has queued
    streamer,       \* per call: the TextIteratorStreamer queue
    token,          \* per call: the loop variable `token`
    full_response,  \* per call: the accumulator
    log,            \* per call: the callback invocations made so far, in order
    exit_cause,     \* per call: how the for loop was left ("none", "break", "end")
    stop_called,    \* per call: whether stop() came while the call was in flight
    stop_at,        \* per call: increments forwarded when stop() first came while
                    \* the loop waited for the next increment, or -1
    \* ChatbotGUI (src/ui/chat_window.py) and its ConversationManager
    button,         \* which of send / stop / continue InputArea shows
    messages,       \* conversation.messages
    is_interrupted, \* conversation.is_interrupted
    partial_response, \* conversation.partial_response
    \* Database / SessionManager (src/storage)
    foreign_keys,   \* whether the SQLite build enforces foreign keys by default
    db_sessions,    \* table sessions: id -> row
    db_messages,    \* table messages: the rows in rowid order
    seq_sessions,   \* sqlite_sequence of sessions (AUTOINCREMENT)
    seq_messages,   \* sqlite_sequence of messages (AUTOINCREMENT)
    clock,          \* CURRENT_TIMESTAMP
    pending,        \* add_message calls between their INSERT and their UPDATE
    \* PersistentGradioChat (src/app_gradio_persistent.py)
    is_generating,  \* self.is_generating
    current_session_id, \* self.current_session_id
    call,           \* the generate_response (or LLMWrapper.generate) call: where
                    \* it is and its locals
    \* the call under observation
    last_call       \* the ConversationManager, SessionManager or controller
                    \* call made last, with the state it was made in

genVars == << stop_flag, pc, stream, backend, put, streamer, token,
              full_response, log, exit_cause, stop_called, stop_at >>
guiVars == << button, messages, is_interrupted, partial_response >>
storeVars == << foreign_keys, db_sessions, db_messages, seq_sessions,
                seq_messages, clock, pending >>
chatVars == << is_generating, current_session_id, call >>
vars == << genVars, guiVars, storeVars, chatVars, last_call >>

Workers == 1..MaxWorkers

TokenEvent(t) == [kind |-> "token", text |-> t, stopped |-> FALSE]
CompleteEvent(response, was_stopped) ==
    [kind |-> "complete", text |-> response, stopped |-> was_stopped]

\* The increments token_callback received in call w, in order.
Forwarded(w) ==
    LET toks == SelectSeq(log[w], LAMBDA e : e.kind = "token")
    IN  [i \in 1..Len(toks) |-> toks[i].text]
\* The complete_callback invocations of call w, in order.
Completions(w) == SelectSeq(log[w], LAMBDA e : e.kind = "complete")

\* A call is in flight from the moment it is entered until it returns or raises.
InFlight(w) == pc[w] \notin {"idle", "returned", "raised"}

\* ------------------------------------------------- ResponseGenerator steps
\* Each step constrains the generator's variables only; a specification
\* conjoins what the caller's callbacks do.

\* generator.py 29: self.stop_flag = False
GenReset(w) ==
    /\ pc[w] = "reset"
    /\ stop_flag' = FALSE
    /\ pc' = [pc EXCEPT ![w] = "prepare"]
    /\ UNCHANGED << stream, backend, put, streamer, token, full_response,
                    log, exit_cause, stop_called, stop_at >>

\* A plausible slip: a failure while preparing leaves the call as an exception.
GenPreparePropagates(w, s, fails) ==
    /\ pc[w] = "prepare"
    /\ IF fails
       THEN /\ pc' = [pc EXCEPT ![w] = "raised"]
            /\ UNCHANGED << stream, backend, full_response >>
       ELSE /\ pc' = [pc EXCEPT ![w] = "loop_get"]
            /\ stream' = [stream EXCEPT ![w] = s]
            /\ backend' = [backend EXCEPT ![w] = "running"]
            /\ full_response' = [full_response EXCEPT ![w] = << >>]
    /\ UNCHANGED << stop_flag, put, streamer, token, log, exit_cause,
                    stop_called, stop_at >>

\* generator.py 31-67: prepare the inputs, start the generation thread and
\* set full_response = ""; any exception goes to the except clause.
GenPrepare(w, s, fails) ==
    /\ pc[w] = "prepare"
    /\ IF fails
       THEN /\ pc' = [pc EXCEPT ![w] = "except"]
            /\ UNCHANGED << stream, backend, full_response >>
       ELSE /\ pc' = [pc EXCEPT ![w] = "loop_get"]
            /\ stream' = [stream EXCEPT ![w] = s]
            /\ backend' = [backend EXCEPT ![w] = "running"]
            /\ full_response' = [full_response EXCEPT ![w] = << >>]
    /\ UNCHANGED << stop_flag, put, streamer, token, log, exit_cause,
                    stop_called, stop_at >>

\* generator.py 61-64: the generation thread puts the next increment on the
\* streamer's queue.
BackendPut(w) ==
    /\ backend[w] = "running"
    /\ put[w] < Len(stream[w])
    /\ put' = [put EXCEPT ![w] = put[w] + 1]
    /\ streamer' = [streamer EXCEPT ![w] = Append(streamer[w], stream[w][put[w] + 1])]
    /\ UNCHANGED << stop_flag, pc, stream, backend, token, full_response,
                    log, exit_cause, stop_called, stop_at >>

\* generator.py 61-64: the generation thread ends the stream.
BackendEnd(w) ==
    /\ backend[w] = "running"
    /\ put[w] = Len(stream[w])
    /\ backend' = [backend EXCEPT ![w] = "finished"]
    /\ UNCHANGED << stop_flag, pc, stream, put, streamer, token,
                    full_response, log, exit_cause, stop_called, stop_at >>

\* generator.py 61-64: the generation thread runs to its end at once: it
\* queues every increment not yet queued and ends the stream.
BackendRun(w) ==
    /\ backend[w] = "running"
    /\ put' = [put EXCEPT ![w] = Len(stream[w])]
    /\ streamer' = [streamer EXCEPT ![w] =
                      streamer[w] \o SubSeq(stream[w], put[w] + 1, Len(stream[w]))]
    /\ backend' = [backend EXCEPT ![w] = "finished"]
    /\ UNCHANGED << stop_flag, pc, stream, token, full_response, log,
                    exit_cause, stop_called, stop_at >>

\* generator.py 68: `for token in streamer` takes the next increment, or
\* leaves the loop at the end of the stream; it blocks on an empty queue.
GenLoopGet(w) ==
    /\ pc[w] = "loop_get"
    /\ \/ streamer[w] # << >>
       \/ backend[w] = "finished"
    /\ IF streamer[w] # << >>
       THEN /\ token' = [token EXCEPT ![w] = StreamerGet(streamer[w])[1]]
            /\ streamer' = [streamer EXCEPT ![w] = StreamerGet(streamer[w])[2]]
            /\ pc' = [pc EXCEPT ![w] = "loop_check"]
            /\ UNCHANGED exit_cause
       ELSE /\ pc' = [pc EXCEPT ![w] = "complete"]
            /\ exit_cause' = [exit_cause EXCEPT ![w] = "end"]
            /\ UNCHANGED << token, streamer >>
    /\ UNCHANGED << stop_flag, stream, backend, put, full_response, log,
                    stop_called, stop_at >>

\* A plausible slip: the flag is tested after the increment was accumulated
\* and forwarded instead of before.
GenLoopCheckLate(w) ==
    /\ pc[w] = "loop_check"
    /\ full_response' = [full_response EXCEPT ![w] = full_response[w] \o token[w]]
    /\ log' = [log EXCEPT ![w] = Append(log[w], TokenEvent(token[w]))]
    /\ IF stop_flag
       THEN /\ pc' = [pc EXCEPT ![w] = "complete"]
            /\ exit_cause' = [exit_cause EXCEPT ![w] = "break"]
       ELSE /\ pc' = [pc EXCEPT ![w] = "loop_get"]
            /\ UNCHANGED exit_cause
    /\ UNCHANGED << stop_flag, stream, backend, put, streamer, token,
                    stop_called, stop_at >>

\* generator.py 69-71: if self.stop_flag: break; full_response += token
GenLoopCheck(w) ==
    /\ pc[w] = "loop_check"
    /\ IF stop_flag
       THEN /\ pc' = [pc EXCEPT ![w] = "complete"]
            /\ exit_cause' = [exit_cause EXCEPT ![w] = "break"]
            /\ UNCHANGED full_response
       ELSE /\ pc' = [pc EXCEPT ![w] = "loop_cb"]
            /\ full_response' = [full_response EXCEPT ![w] = full_response[w] \o token[w]]
            /\ UNCHANGED exit_cause
    /\ UNCHANGED << stop_flag, stream, backend, put, streamer, token, log,
                    stop_called, stop_at >>

\* generator.py 72: token_callback(token); an exception it raises goes to
\* the except clause.
GenTokenCallback(w, raises) ==
    /\ pc[w] = "loop_cb"
    /\ log' = [log EXCEPT ![w] = Append(log[w], TokenEvent(token[w]))]
    /\ pc' = [pc EXCEPT ![w] = IF raises THEN "except" ELSE "loop_get"]
    /\ UNCHANGED << stop_flag, stream, backend, put, streamer, token,
                    full_response, exit_cause, stop_called, stop_at >>

\* A plausible slip: the call returns and leaves the completion to later.
GenCompleteDeferred(w, raises) ==
    /\ pc[w] = "complete"
    /\ pc' = [pc EXCEPT ![w] = "returned"]
    /\ UNCHANGED << stop_flag, stream, backend, put, streamer, token,
                    full_response, log, exit_cause, stop_called, stop_at >>

\* generator.py 74-81: extract the response and call
\* complete_callback(assistant_response, self.stop_flag), inside the try block.
GenComplete(w, raises) ==
    /\ pc[w] = "complete"
    /\ log' = [log EXCEPT ![w] =
                 Append(log[w], CompleteEvent(Extract(full_response[w]), stop_flag))]
    /\ pc' = [pc EXCEPT ![w] = IF raises THEN "except" ELSE "returned"]
    /\ UNCHANGED << stop_flag, stream, backend, put, streamer, token,
                    full_response, exit_cause, stop_called, stop_at >>

\* generator.py 83-84: except Exception: complete_callback("Error: ...", True);
\* an exception raised here leaves generate_streaming.
GenExcept(w, raises) ==
    /\ pc[w] = "except"
    /\ log' = [log EXCEPT ![w] = Append(log[w], CompleteEvent(ErrorText, TRUE))]
    /\ pc' = [pc EXCEPT ![w] = IF raises THEN "raised" ELSE "returned"]
    /\ UNCHANGED << stop_flag, stream, backend, put, streamer, token,
                    full_response, exit_cause, stop_called, stop_at >>

\* generator.py 86-88: stop() sets the flag.  stop_called and stop_at record
\* what the calls in flight were doing when it came.
GenStop ==
    /\ stop_flag' = TRUE
    /\ stop_called' = [w \in Workers |-> stop_called[w] \/ InFlight(w)]
    /\ stop_at' = [w \in Workers |->
                     IF pc[w] = "loop_get" /\ stop_at[w] = -1
                     THEN Len(Forwarded(w)) ELSE stop_at[w]]
    /\ UNCHANGED << pc, stream, backend, put, streamer, token, full_response,
                    log, exit_cause >>

\* --------------------------------------------------- ConversationManager
\* The texts a user submits (InputArea._handle_send passes stripped,
\* non-empty text only).
UserTexts == { <<"H", "e", "l", "l", "o">> }

\* conversation.py 62: "Please continue from where you left off."
ContinuePrompt == <<"Please continue from where you left off.">>

Message(role, content) == [role |-> role, content |-> content]

\* conversation.py 14-23: add_user_message appends; it leaves the
\* interruption state alone.
add_user_message(content) ==
    /\ messages' = Append(messages, Message("user", content))
    /\ UNCHANGED << is_interrupted, partial_response >>

\* A plausible slip: the message is put in front of the log.
add_assistant_message_front(content) ==
    /\ messages' = << Message("assistant", content) >> \o messages
    /\ UNCHANGED << is_interrupted, partial_response >>

\* conversation.py 25-34
add_assistant_message(content) ==
    /\ messages' = Append(messages, Message("assistant", content))
    /\ UNCHANGED << is_interrupted, partial_response >>

\* A plausible slip: the interruption flag survives the reset.
clear_history_keeps_flag ==
    /\ messages' = << >>
    /\ partial_response' = << >>
    /\ UNCHANGED is_interrupted

\* conversation.py 44-48
clear_history ==
    /\ messages' = << >>
    /\ is_interrupted' = FALSE
    /\ partial_response' = << >>

\* A plausible slip: the partial text is also appended as a completed message.
mark_interrupted_appends(partial_content) ==
    /\ is_interrupted' = TRUE
    /\ partial_response' = partial_content
    /\ messages' = Append(messages, Message("assistant", partial_content))

\* conversation.py 50-57
mark_interrupted(partial_content) ==
    /\ is_interrupted' = TRUE
    /\ partial_response' = partial_content
    /\ UNCHANGED messages

\* A plausible slip: the prompt is appended whether interrupted or not.
continue_conversation_always ==
    /\ messages' = Append(messages, Message("user", ContinuePrompt))
    /\ is_interrupted' = FALSE
    /\ UNCHANGED partial_response

\* conversation.py 59-63
continue_conversation ==
    IF is_interrupted
    THEN /\ messages' = Append(messages, Message("user", ContinuePrompt))
         /\ is_interrupted' = FALSE
         /\ UNCHANGED partial_response
    ELSE UNCHANGED << messages, is_interrupted, partial_response >>

\* conversation.py 36-42
get_history == messages

\* conversation.py 65-71: ConversationManager.get_message_count
message_count == Len(messages)

\* ------------------------------------------------- Database, SessionManager
\* The session ids callers pass: every id the store can assign, so also ids
\* that do not exist yet or no longer exist.
SessionIds == 1..MaxSessions
MessageIds == 1..MaxMessages

Titles == {"Demo"}
Roles == {"user"}
Contents == {"Hello"}
\* An optional argument left out (Python's None).
None == "None"
\* json.dumps(metadata or {}), and a metadata value a caller passes.
EmptyMetadata == "{}"
Metadatas == {"{\"k\": 1}"}

\* session_manager.py 34-35: the placeholder title create_session makes up
\* (its minute stamp is the wall clock's, which no store operation reads).
DefaultTitle == "Conversation"

\* database.py 34-42: a row of table sessions; updated_at defaults to
\* CURRENT_TIMESTAMP.  created_at is written once and read by the Markdown
\* export only, so the row leaves it out.
SessionRow(title, metadata, now) ==
    [title |-> title, updated_at |-> now, metadata |-> metadata]

\* database.py 45-55: a row of table messages; timestamp defaults to
\* CURRENT_TIMESTAMP.
MessageRow(id, session_id, role, content, now) ==
    [id |-> id, session_id |-> session_id, role |-> role, content |-> content,
     timestamp |-> now]

\* AUTOINCREMENT (database.py 36, 47): one more than the largest rowid the
\* table ever held.
NextRowId(seq) == seq + 1

\* session_manager.py 45-57: get_session, None when there is no such row.
get_session(session_id) ==
    IF session_id \in DOMAIN db_sessions THEN db_sessions[session_id] ELSE None

\* ORDER BY timestamp ASC (session_manager.py 212) over rows read in rowid
\* order: the rows with the least timestamp first.  SQL does not say in which
\* order rows of one second come out; SQLite reads the rows of a session
\* through idx_messages_session (database.py 58-60), that is in rowid order,
\* and its sorter keeps that order for equal keys.
RECURSIVE OrderByTimestamp(_)
OrderByTimestamp(rows) ==
    IF rows = << >>
    THEN << >>
    ELSE LET first == CHOOSE i \in 1..Len(rows) :
                        \A j \in 1..Len(rows) :
                            \/ rows[i].timestamp < rows[j].timestamp
                            \/ rows[i].timestamp = rows[j].timestamp /\ i <= j
             rest == [j \in 1..(Len(rows) - 1) |->
                        IF j < first THEN rows[j] ELSE rows[j + 1]]
         IN  << rows[first] >> \o OrderByTimestamp(rest)

\* ORDER BY timestamp DESC in place of ASC.
get_messages_newest_first(session_id) ==
    LET r == OrderByTimestamp(SelectSeq(db_messages, LAMBDA m : m.session_id = session_id))
    IN  [i \in 1..Len(r) |-> r[Len(r) + 1 - i]]

\* session_manager.py 196-225: get_messages without limit, SELECT * FROM
\* messages WHERE session_id = ? ORDER BY timestamp ASC.
get_messages(session_id) ==
    OrderByTimestamp(SelectSeq(db_messages, LAMBDA m : m.session_id = session_id))

\* session_manager.py 227-239
get_message_count(session_id) ==
    Cardinality({ i \in 1..Len(db_messages) : db_messages[i].session_id = session_id })

\* database.py 26-68: the schema is created on an empty database.  The
\* connection never issues PRAGMA foreign_keys, so whether ON DELETE CASCADE
\* and the foreign key are enforced is the SQLite build's default.
StoreInit ==
    /\ foreign_keys \in BOOLEAN
    /\ db_sessions = << >>
    /\ db_messages = << >>
    /\ seq_sessions = 0
    /\ seq_messages = 0
    /\ clock = 0
    /\ pending = {}

\* The sessions table without AUTOINCREMENT: the new rowid is one more than
\* the largest rowid in the table.
create_session_reuses_rowid(title, metadata) ==
    /\ LET largest == IF DOMAIN db_sessions = {} THEN 0
                      ELSE CHOOSE i \in DOMAIN db_sessions :
                               \A j \in DOMAIN db_sessions : j <= i
           id == largest + 1
           row == SessionRow(IF title = None THEN DefaultTitle ELSE title,
                             IF metadata = None THEN EmptyMetadata ELSE metadata,
                             clock)
       IN  /\ db_sessions' = [i \in DOMAIN db_sessions \cup {id} |->
                                IF i = id THEN row ELSE db_sessions[i]]
           /\ seq_sessions' = seq_sessions + 1
    /\ UNCHANGED << foreign_keys, db_messages, seq_messages, clock, pending >>

\* session_manager.py 24-43: create_session; each execute() commits
\* (database.py 85-88).
create_session(title, metadata) ==
    /\ LET id == NextRowId(seq_sessions)
           row == SessionRow(IF title = None THEN DefaultTitle ELSE title,
                             IF metadata = None THEN EmptyMetadata ELSE metadata,
                             clock)
       IN  /\ db_sessions' = [i \in DOMAIN db_sessions \cup {id} |->
                                IF i = id THEN row ELSE db_sessions[i]]
           /\ seq_sessions' = id
    /\ UNCHANGED << foreign_keys, db_messages, seq_messages, clock, pending >>

\* update_session writing json.dumps(metadata or {}) whenever it updates.
update_session_resets_metadata(session_id, title, metadata) ==
    /\ db_sessions' =
         IF title = None /\ metadata = None
         THEN db_sessions
         ELSE [i \in DOMAIN db_sessions |->
                 IF i = session_id
                 THEN [db_sessions[i] EXCEPT
                         !.title = IF title = None THEN @ ELSE title,
                         !.metadata = IF metadata = None THEN EmptyMetadata ELSE metadata,
                         !.updated_at = clock]
                 ELSE db_sessions[i]]
    /\ UNCHANGED << foreign_keys, db_messages, seq_sessions, seq_messages,
                    clock, pending >>

\* session_manager.py 86-118: update_session; with a field supplied it also
\* sets updated_at = CURRENT_TIMESTAMP.
update_session(session_id, title, metadata) ==
    /\ db_sessions' =
         IF title = None /\ metadata = None
         THEN db_sessions
         ELSE [i \in DOMAIN db_sessions |->
                 IF i = session_id
                 THEN [db_sessions[i] EXCEPT
                         !.title = IF title = None THEN @ ELSE title,
                         !.metadata = IF metadata = None THEN @ ELSE metadata,
                         !.updated_at = clock]
                 ELSE db_sessions[i]]
    /\ UNCHANGED << foreign_keys, db_messages, seq_sessions, seq_messages,
                    clock, pending >>

\* session_manager.py 120-130: delete_session deletes the session row; the
\* messages go with it only where ON DELETE CASCADE (database.py 53) is
\* enforced.
delete_session(session_id) ==
    /\ db_sessions' = [i \in DOMAIN db_sessions \ {session_id} |-> db_sessions[i]]
    /\ db_messages' =
         IF foreign_keys /\ session_id \in DOMAIN db_sessions
         THEN SelectSeq(db_messages, LAMBDA m : m.session_id # session_id)
         ELSE db_messages
    /\ UNCHANGED << foreign_keys, seq_sessions, seq_messages, clock, pending >>

\* session_manager.py 178-186: the first statement of add_message, INSERT
\* INTO messages, committed by execute() (database.py 85-88).  Where the
\* foreign key is enforced an unknown session_id raises and nothing is
\* inserted.
add_message_insert(session_id, role, content) ==
    /\ IF foreign_keys /\ session_id \notin DOMAIN db_sessions
       THEN UNCHANGED << db_messages, seq_messages, pending >>
       ELSE LET id == NextRowId(seq_messages)
            IN  /\ db_messages' =
                     Append(db_messages, MessageRow(id, session_id, role, content, clock))
                /\ seq_messages' = id
                /\ pending' = pending \cup { [session_id |-> session_id, lastrowid |-> id] }
    /\ UNCHANGED << foreign_keys, db_sessions, seq_sessions, clock >>

\* session_manager.py 188-194: the second statement of add_message, UPDATE
\* sessions SET updated_at = CURRENT_TIMESTAMP, committed on its own; then
\* cursor.lastrowid is returned.
add_message_update(p) ==
    /\ p \in pending
    /\ pending' = pending \ {p}
    /\ db_sessions' =
         [i \in DOMAIN db_sessions |->
            IF i = p.session_id
            THEN [db_sessions[i] EXCEPT !.updated_at = clock]
            ELSE db_sessions[i]]
    /\ UNCHANGED << foreign_keys, db_messages, seq_sessions, seq_messages, clock >>

\* session_manager.py 188-192 with database.py 85-88: the UPDATE raises
\* sqlite3.Error; add_message is left with the message inserted and the
\* session's timestamp untouched.
add_message_update_raises(p) ==
    /\ p \in pending
    /\ pending' = pending \ {p}
    /\ UNCHANGED << foreign_keys, db_sessions, db_messages, seq_sessions,
                    seq_messages, clock >>

\* session_manager.py 241-251
delete_message(message_id) ==
    /\ db_messages' = SelectSeq(db_messages, LAMBDA m : m.id # message_id)
    /\ UNCHANGED << foreign_keys, db_sessions, seq_sessions, seq_messages,
                    clock, pending >>

\* session_manager.py 253-263
clear_messages(session_id) ==
    /\ db_messages' = SelectSeq(db_messages, LAMBDA m : m.session_id # session_id)
    /\ UNCHANGED << foreign_keys, db_sessions, seq_sessions, seq_messages,
                    clock, pending >>

\* CURRENT_TIMESTAMP (database.py 38-39, 51; session_manager.py 113, 190)
\* moves on by one second.
Tick ==
    /\ clock < MaxClock
    /\ clock' = clock + 1
    /\ UNCHANGED << foreign_keys, db_sessions, db_messages, seq_sessions,
                    seq_messages, pending >>

\* ------------------------------------------------------------ initial state
GenInit ==
    /\ stop_flag \in BOOLEAN
    /\ stream = [w \in Workers |-> << >>]
    /\ backend = [w \in Workers |-> "off"]
    /\ put = [w \in Workers |-> 0]
    /\ streamer = [w \in Workers |-> << >>]
    /\ token = [w \in Workers |-> << >>]
    /\ full_response = [w \in Workers |-> << >>]
    /\ log = [w \in Workers |-> << >>]
    /\ exit_cause = [w \in Workers |-> "none"]
    /\ stop_called = [w \in Workers |-> FALSE]
    /\ stop_at = [w \in Workers |-> -1]

\* ConversationManager.__init__ (conversation.py 8-12) and InputArea.__init__
\* (components.py 129-130: the send button is shown).
GuiInit ==
    /\ button = "send"
    /\ messages = << >>
    /\ is_interrupted = FALSE
    /\ partial_response = << >>

\* A generate_response call that has not been made: its position and locals.
\* cancelled records that the loop was left by the break of line 207.
IdleCall ==
    [pc |-> "idle", message |-> << >>, save_to_db |-> FALSE, stream |-> << >>,
     taken |-> 0, token |-> << >>, full_response |-> << >>, yields |-> << >>,
     cancelled |-> FALSE, outcome |-> "none"]

\* app_gradio_persistent.py 29: current_session_id = None.  Row ids start at
\* 1 and the code tests the field for truth only, so None is taken as 0.
NoSession == 0

\* app_gradio_persistent.py 29-30: the fields __init__ sets before it creates
\* the first session.
ChatInit ==
    /\ is_generating = FALSE
    /\ current_session_id = NoSession
    /\ call = IdleCall

\* No ConversationManager call was made yet.
NoCall ==
    [op |-> "none", content |-> << >>, prev |-> "none",
     before |-> [messages |-> << >>, is_interrupted |-> FALSE,
                 partial_response |-> << >>]]

\* ------------------------------------------------------------------------
\* SpecGen: one call of generate_streaming with caller-supplied callbacks
\* that may raise, a generation thread, and another thread calling stop().
\* The flag may be left set by an earlier stop().
\* ------------------------------------------------------------------------
InitGen ==
    /\ GenInit
    /\ GuiInit
    /\ ChatInit
    /\ last_call = NoCall
    /\ StoreInit /\ ~foreign_keys
    /\ pc = [w \in Workers |-> IF w = 1 THEN "reset" ELSE "idle"]

CallReset == \E w \in Workers : GenReset(w) /\ UNCHANGED << guiVars, storeVars, chatVars, last_call >>

CallPrepare ==
    \E w \in Workers, s \in Streams(MaxIncrements), fails \in BOOLEAN :
        GenPrepare(w, s, fails) /\ UNCHANGED << guiVars, storeVars, chatVars, last_call >>

CallBackendPut == \E w \in Workers : BackendPut(w) /\ UNCHANGED << guiVars, storeVars, chatVars, last_call >>

CallBackendEnd == \E w \in Workers : BackendEnd(w) /\ UNCHANGED << guiVars, storeVars, chatVars, last_call >>

CallLoopGet == \E w \in Workers : GenLoopGet(w) /\ UNCHANGED << guiVars, storeVars, chatVars, last_call >>

CallLoopCheck == \E w \in Workers : GenLoopCheck(w) /\ UNCHANGED << guiVars, storeVars, chatVars, last_call >>

CallTokenCallback ==
    \E w \in Workers, raises \in BOOLEAN :
        GenTokenCallback(w, raises) /\ UNCHANGED << guiVars, storeVars, chatVars, last_call >>

CallComplete ==
    \E w \in Workers, raises \in BOOLEAN :
        GenComplete(w, raises) /\ UNCHANGED << guiVars, storeVars, chatVars, last_call >>

CallExcept ==
    \E w \in Workers, raises \in BOOLEAN :
        GenExcept(w, raises) /\ UNCHANGED << guiVars, storeVars, chatVars, last_call >>

\* stop() from another thread while the call is in flight.
CallStop ==
    /\ \E w \in Workers : InFlight(w)
    /\ GenStop
    /\ UNCHANGED << guiVars, storeVars, chatVars, last_call >>

NextGen ==
    \/ CallReset
    \/ CallPrepare
    \/ CallBackendPut
    \/ CallBackendEnd
    \/ CallLoopGet
    \/ CallLoopCheck
    \/ CallTokenCallback
    \/ CallComplete
    \/ CallExcept
    \/ CallStop

SpecGen == InitGen /\ [][NextGen]_vars


\* ------------------------------------------------------------------------
\* SpecGUI: ChatbotGUI.  The tkinter main loop runs one handler at a time;
\* every Send / Continue starts a daemon thread that runs _generate_response
\* on the one ResponseGenerator.
\* ------------------------------------------------------------------------
\* The streams the backend produces for the controller's calls.
GuiIncrements == { <<"O", "n", "c", "e">>, <<" ">> }
GuiStreams == UNION { [1..k -> GuiIncrements] : k \in 0..MaxGuiIncrements }

InitGUI ==
    /\ GenInit
    /\ GuiInit
    /\ ChatInit
    /\ last_call = NoCall
    /\ StoreInit /\ ~foreign_keys
    /\ stop_flag = FALSE
    /\ pc = [w \in Workers |-> "idle"]

\* The thread a Send / Continue starts: threads are anonymous, so the model
\* numbers them in the order they are started.
NextWorker == CHOOSE w \in Workers : pc[w] = "idle" /\ \A v \in Workers : pc[v] = "idle" => w <= v

\* chat_window.py 97-100 / 115-118: threading.Thread(target=
\* self._generate_response).start(); the thread enters generate_streaming
\* (chat_window.py 128-154).
StartWorker ==
    /\ \E w \in Workers : pc[w] = "idle"
    /\ pc' = [pc EXCEPT ![NextWorker] = "reset"]
    /\ UNCHANGED << stop_flag, stream, backend, put, streamer, token,
                    full_response, log, exit_cause, stop_called, stop_at >>

\* chat_window.py 81-100 (_handle_send), reached from the Send button and
\* from the <Return> binding of the entry (components.py 111, 144-149),
\* which stays bound whichever button is shown.
HandleSend ==
    \E m \in UserTexts :
        /\ add_user_message(m)
        /\ button' = "stop"
        /\ StartWorker
        /\ UNCHANGED << storeVars, chatVars, last_call >>

\* chat_window.py 102-107 (_handle_stop): the Stop button is shown.
HandleStop ==
    /\ button = "stop"
    /\ GenStop
    /\ button' = "continue"
    /\ UNCHANGED << messages, is_interrupted, partial_response, storeVars, chatVars, last_call >>

\* chat_window.py 109-118 (_handle_continue): the Continue button is shown.
HandleContinue ==
    /\ button = "continue"
    /\ continue_conversation
    /\ button' = "stop"
    /\ StartWorker
    /\ UNCHANGED << storeVars, chatVars, last_call >>

\* chat_window.py 120-126 (_handle_clear): the Clear Memory button is always
\* there.
HandleClear ==
    /\ clear_history
    /\ button' = "send"
    /\ UNCHANGED << genVars, storeVars, chatVars, last_call >>

\* chat_window.py 135-147: on_complete(response, was_stopped).
on_complete(response, was_stopped) ==
    IF ~was_stopped
    THEN /\ add_assistant_message(response)
         /\ button' = "send"
    ELSE /\ mark_interrupted(response)
         /\ button' = "continue"

WorkerReset == \E w \in Workers : GenReset(w) /\ UNCHANGED << guiVars, storeVars, chatVars, last_call >>

WorkerPrepare ==
    \E w \in Workers, s \in GuiStreams, fails \in BOOLEAN :
        GenPrepare(w, s, fails) /\ UNCHANGED << guiVars, storeVars, chatVars, last_call >>

\* The generation thread of a controller's call.  The consumer sees only the
\* order of the increments, and the scheduler may delay it at will, so the
\* thread is taken to queue its whole stream in one step.
WorkerBackend == \E w \in Workers : BackendRun(w) /\ UNCHANGED << guiVars, storeVars, chatVars, last_call >>

WorkerLoopGet == \E w \in Workers : GenLoopGet(w) /\ UNCHANGED << guiVars, storeVars, chatVars, last_call >>

WorkerLoopCheck == \E w \in Workers : GenLoopCheck(w) /\ UNCHANGED << guiVars, storeVars, chatVars, last_call >>

\* chat_window.py 132-133: on_token only writes to the chat display.
WorkerOnToken ==
    \E w \in Workers : GenTokenCallback(w, FALSE) /\ UNCHANGED << guiVars, storeVars, chatVars, last_call >>

\* generator.py 81 calling chat_window.py 135-147.
WorkerOnComplete ==
    \E w \in Workers :
        /\ GenComplete(w, FALSE)
        /\ on_complete(Extract(full_response[w]), stop_flag)
        /\ UNCHANGED << storeVars, chatVars, last_call >>

\* generator.py 84 calling chat_window.py 135-147.
WorkerOnError ==
    \E w \in Workers :
        /\ GenExcept(w, FALSE)
        /\ on_complete(ErrorText, TRUE)
        /\ UNCHANGED << storeVars, chatVars, last_call >>

NextGUI ==
    \/ HandleSend
    \/ HandleStop
    \/ HandleContinue
    \/ HandleClear
    \/ WorkerReset
    \/ WorkerPrepare
    \/ WorkerBackend
    \/ WorkerLoopGet
    \/ WorkerLoopCheck
    \/ WorkerOnToken
    \/ WorkerOnComplete
    \/ WorkerOnError

SpecGUI == InitGUI /\ [][NextGUI]_vars

\* ------------------------------------------------------------------------
\* SpecTurn: one generation turn of ChatbotGUI.  The user has sent a message
\* (chat_window.py 81-100) and the worker thread is about to enter
\* generate_streaming; during the turn the user may press Stop and Clear
\* Memory, and starts no other turn.
\* ------------------------------------------------------------------------
InitTurn ==
    /\ GenInit
    /\ stop_flag = FALSE
    /\ pc = [w \in Workers |-> IF w = 1 THEN "reset" ELSE "idle"]
    /\ button = "stop"
    /\ messages \in { << Message("user", m) >> : m \in UserTexts }
    /\ is_interrupted = FALSE
    /\ partial_response = << >>
    /\ StoreInit /\ ~foreign_keys
    /\ ChatInit
    /\ last_call = NoCall

NextTurn ==
    \/ HandleStop
    \/ HandleClear
    \/ WorkerReset
    \/ WorkerPrepare
    \/ WorkerBackend
    \/ WorkerLoopGet
    \/ WorkerLoopCheck
    \/ WorkerOnToken
    \/ WorkerOnComplete
    \/ WorkerOnError

SpecTurn == InitTurn /\ [][NextTurn]_vars

\* ------------------------------------------------------------------------
\* SpecGradio: one generate_response call of PersistentGradioChat
\* (app_gradio_persistent.py 114-226) and the Stop button.  With save_to_db
\* FALSE the call is GradioChat.generate_response (app_gradio.py 50-155).
\* Every execute() of the store may raise sqlite3.Error.
\* ------------------------------------------------------------------------
\* The texts submitted: a word, a blank and nothing.
GradioTexts == UserTexts \cup { <<" ">>, << >> }

\* "Model not loaded yet. Please wait..."
NotLoadedText == <<"Model not loaded yet. Please wait...">>

\* app_gradio_persistent.py 22-34: __init__ creates the first session.
InitGradio ==
    /\ GenInit
    /\ stop_flag = FALSE
    /\ pc = [w \in Workers |-> "idle"]
    /\ GuiInit
    /\ last_call = NoCall
    /\ foreign_keys \in BOOLEAN
    /\ db_sessions = [i \in {1} |-> SessionRow(DefaultTitle, EmptyMetadata, 0)]
    /\ db_messages = << >>
    /\ seq_sessions = 1
    /\ seq_messages = 0
    /\ clock = 0
    /\ pending = {}
    /\ is_generating = FALSE
    /\ current_session_id = 1
    /\ call = IdleCall

\* What a step of the call leaves alone besides the controller, the log and
\* the store.
GrFrame == UNCHANGED << genVars, button, last_call, current_session_id >>
LogUnchanged == UNCHANGED << messages, is_interrupted, partial_response >>

\* generate_response testing `not message` in place of `not message.strip()`.
GrSubmitNoStrip ==
    \E m \in GradioTexts, s \in BOOLEAN, is_loaded \in BOOLEAN :
        /\ call.pc = "idle"
        /\ IF ~is_loaded
           THEN /\ call' = [call EXCEPT !.pc = "returned", !.message = m,
                                        !.save_to_db = s,
                                        !.yields = << NotLoadedText >>,
                                        !.outcome = "not_loaded"]
                /\ UNCHANGED is_generating
                /\ LogUnchanged
           ELSE IF m = << >>
           THEN /\ call' = [call EXCEPT !.pc = "returned", !.message = m,
                                        !.save_to_db = s, !.outcome = "empty"]
                /\ UNCHANGED is_generating
                /\ LogUnchanged
           ELSE /\ call' = [call EXCEPT !.pc = "save_user", !.message = m,
                                        !.save_to_db = s]
                /\ is_generating' = TRUE
                /\ add_user_message(m)
        /\ UNCHANGED storeVars
        /\ GrFrame

\* app_gradio_persistent.py 136-148: the guards, is_generating = True and
\* conversation.add_user_message(message).
GrSubmit ==
    \E m \in GradioTexts, s \in BOOLEAN, is_loaded \in BOOLEAN :
        /\ call.pc = "idle"
        /\ IF ~is_loaded
           THEN /\ call' = [call EXCEPT !.pc = "returned", !.message = m,
                                        !.save_to_db = s,
                                        !.yields = << NotLoadedText >>,
                                        !.outcome = "not_loaded"]
                /\ UNCHANGED is_generating
                /\ LogUnchanged
           ELSE IF Strip(m) = << >>
           THEN /\ call' = [call EXCEPT !.pc = "returned", !.message = m,
                                        !.save_to_db = s, !.outcome = "empty"]
                /\ UNCHANGED is_generating
                /\ LogUnchanged
           ELSE /\ call' = [call EXCEPT !.pc = "save_user", !.message = m,
                                        !.save_to_db = s]
                /\ is_generating' = TRUE
                /\ add_user_message(m)
        /\ UNCHANGED storeVars
        /\ GrFrame

\* app_gradio_persistent.py 150-152 with session_manager.py 178-186: the
\* INSERT of the user message; an exception leaves generate_response, which
\* is not yet inside its try block.
GrSaveUserInsert ==
    \E raises \in BOOLEAN :
        /\ call.pc = "save_user"
        /\ IF call.save_to_db /\ current_session_id # NoSession
           THEN IF raises
                THEN /\ call' = [call EXCEPT !.pc = "propagated"]
                     /\ UNCHANGED storeVars
                ELSE /\ add_message_insert(current_session_id, "user", call.message)
                     /\ call' = [call EXCEPT !.pc = "save_user_update"]
           ELSE /\ call' = [call EXCEPT !.pc = "prepare"]
                /\ UNCHANGED storeVars
        /\ UNCHANGED is_generating
        /\ LogUnchanged
        /\ GrFrame

\* app_gradio_persistent.py 152 with session_manager.py 188-194: the UPDATE
\* of the session's timestamp for the user message.
GrSaveUserUpdate ==
    \E raises \in BOOLEAN, p \in pending :
        /\ call.pc = "save_user_update"
        /\ IF raises
           THEN /\ add_message_update_raises(p)
                /\ call' = [call EXCEPT !.pc = "propagated"]
           ELSE /\ add_message_update(p)
                /\ call' = [call EXCEPT !.pc = "prepare"]
        /\ UNCHANGED is_generating
        /\ LogUnchanged
        /\ GrFrame

\* app_gradio_persistent.py 160-202: prepare the inputs, set full_response
\* = "" and start the generation thread; an exception goes to the except
\* clause.
GrPrepare ==
    \E s \in GuiStreams, fails \in BOOLEAN :
        /\ call.pc = "prepare"
        /\ call' = IF fails
                   THEN [call EXCEPT !.pc = "except"]
                   ELSE [call EXCEPT !.pc = "loop_get", !.stream = s,
                                     !.full_response = << >>]
        /\ UNCHANGED << is_generating, storeVars >>
        /\ LogUnchanged
        /\ GrFrame

\* app_gradio_persistent.py 205: `for token in streamer` takes the next
\* increment the generation thread produces, or leaves the loop at the end
\* of the stream.
GrLoopGet ==
    /\ call.pc = "loop_get"
    /\ call' = IF call.taken < Len(call.stream)
               THEN [call EXCEPT !.pc = "loop_check",
                                 !.token = call.stream[call.taken + 1],
                                 !.taken = call.taken + 1]
               ELSE [call EXCEPT !.pc = "add_assistant"]
    /\ UNCHANGED << is_generating, storeVars >>
    /\ LogUnchanged
    /\ GrFrame

\* app_gradio_persistent.py 206-209: if not self.is_generating: break;
\* full_response += token; yield.
GrLoopCheck ==
    /\ call.pc = "loop_check"
    /\ call' = IF ~is_generating
               THEN [call EXCEPT !.pc = "add_assistant", !.cancelled = TRUE]
               ELSE [call EXCEPT !.pc = "loop_get",
                                 !.full_response = call.full_response \o call.token,
                                 !.yields = Append(call.yields,
                                                   call.full_response \o call.token)]
    /\ UNCHANGED << is_generating, storeVars >>
    /\ LogUnchanged
    /\ GrFrame

\* app_gradio_persistent.py 211-212: "Save complete response", reached after
\* the loop however it was left.
GrAddAssistant ==
    /\ call.pc = "add_assistant"
    /\ add_assistant_message(call.full_response)
    /\ call' = [call EXCEPT !.pc = "save_assistant"]
    /\ UNCHANGED << is_generating, storeVars >>
    /\ GrFrame

\* A plausible slip: the last increment is persisted instead of the response.
GrSaveAssistantInsertLastToken ==
    \E raises \in BOOLEAN :
        /\ call.pc = "save_assistant"
        /\ IF call.save_to_db /\ current_session_id # NoSession
           THEN IF raises
                THEN /\ call' = [call EXCEPT !.pc = "except"]
                     /\ UNCHANGED storeVars
                ELSE /\ add_message_insert(current_session_id, "assistant", call.token)
                     /\ call' = [call EXCEPT !.pc = "save_assistant_update"]
           ELSE /\ call' = [call EXCEPT !.pc = "final_yield"]
                /\ UNCHANGED storeVars
        /\ UNCHANGED is_generating
        /\ LogUnchanged
        /\ GrFrame

\* A plausible slip: a failed INSERT of the assistant message takes the
\* message back out of the log.
GrSaveAssistantInsertRollsBack ==
    \E raises \in BOOLEAN :
        /\ call.pc = "save_assistant"
        /\ IF call.save_to_db /\ current_session_id # NoSession
           THEN IF raises
                THEN /\ call' = [call EXCEPT !.pc = "except"]
                     /\ messages' = SubSeq(messages, 1, Len(messages) - 1)
                     /\ UNCHANGED << storeVars, is_interrupted, partial_response >>
                ELSE /\ add_message_insert(current_session_id, "assistant",
                                           call.full_response)
                     /\ call' = [call EXCEPT !.pc = "save_assistant_update"]
                     /\ LogUnchanged
           ELSE /\ call' = [call EXCEPT !.pc = "final_yield"]
                /\ UNCHANGED storeVars
                /\ LogUnchanged
        /\ UNCHANGED is_generating
        /\ GrFrame

\* app_gradio_persistent.py 214-217 with session_manager.py 178-186: the
\* INSERT of the assistant message; an exception goes to the except clause.
GrSaveAssistantInsert ==
    \E raises \in BOOLEAN :
        /\ call.pc = "save_assistant"
        /\ IF call.save_to_db /\ current_session_id # NoSession
           THEN IF raises
                THEN /\ call' = [call EXCEPT !.pc = "except"]
                     /\ UNCHANGED storeVars
                ELSE /\ add_message_insert(current_session_id, "assistant",
                                           call.full_response)
                     /\ call' = [call EXCEPT !.pc = "save_assistant_update"]
           ELSE /\ call' = [call EXCEPT !.pc = "final_yield"]
                /\ UNCHANGED storeVars
        /\ UNCHANGED is_generating
        /\ LogUnchanged
        /\ GrFrame

\* app_gradio_persistent.py 215-217 with session_manager.py 188-194: the
\* UPDATE of the session's timestamp for the assistant message.
GrSaveAssistantUpdate ==
    \E raises \in BOOLEAN, p \in pending :
        /\ call.pc = "save_assistant_update"
        /\ IF raises
           THEN /\ add_message_update_raises(p)
                /\ call' = [call EXCEPT !.pc = "except"]
           ELSE /\ add_message_update(p)
                /\ call' = [call EXCEPT !.pc = "final_yield"]
        /\ UNCHANGED is_generating
        /\ LogUnchanged
        /\ GrFrame

\* app_gradio_persistent.py 219: the final yield.
GrFinalYield ==
    /\ call.pc = "final_yield"
    /\ call' = [call EXCEPT !.pc = "finally",
                            !.yields = Append(call.yields, call.full_response),
                            !.outcome = "complete"]
    /\ UNCHANGED << is_generating, storeVars >>
    /\ LogUnchanged
    /\ GrFrame

\* app_gradio_persistent.py 221-224: except Exception: yield the error text.
GrExcept ==
    /\ call.pc = "except"
    /\ call' = [call EXCEPT !.pc = "finally",
                            !.yields = Append(call.yields, ErrorText),
                            !.outcome = "error"]
    /\ UNCHANGED << is_generating, storeVars >>
    /\ LogUnchanged
    /\ GrFrame

\* app_gradio_persistent.py 225-226: finally: self.is_generating = False.
GrFinally ==
    /\ call.pc = "finally"
    /\ is_generating' = FALSE
    /\ call' = [call EXCEPT !.pc = "returned"]
    /\ UNCHANGED storeVars
    /\ LogUnchanged
    /\ GrFrame

\* app_gradio_persistent.py 417-419 (app_gradio.py 157-160): the Stop
\* button, which is there at any time.
StopGeneration ==
    /\ is_generating' = FALSE
    /\ UNCHANGED << call, storeVars >>
    /\ LogUnchanged
    /\ GrFrame

GrTick == Tick /\ UNCHANGED << genVars, guiVars, chatVars, last_call >>

NextGradio ==
    \/ GrSubmit
    \/ GrSaveUserInsert
    \/ GrSaveUserUpdate
    \/ GrPrepare
    \/ GrLoopGet
    \/ GrLoopCheck
    \/ GrAddAssistant
    \/ GrSaveAssistantInsert
    \/ GrSaveAssistantUpdate
    \/ GrFinalYield
    \/ GrExcept
    \/ GrFinally
    \/ StopGeneration
    \/ GrTick

SpecGradio == InitGradio /\ [][NextGradio]_vars

\* ------------------------------------------------------------------------
\* SpecStore: the session store, used by threads that share the one
\* connection (check_same_thread=False, database.py 28).  Every statement is
\* committed on its own; add_message is two statements.
\* ------------------------------------------------------------------------
InitStore ==
    /\ StoreInit
    /\ GenInit
    /\ stop_flag = FALSE
    /\ GuiInit
    /\ ChatInit
    /\ last_call = NoCall
    /\ pc = [w \in Workers |-> "idle"]

CreateSession ==
    \E title \in Titles \cup {None}, metadata \in Metadatas \cup {None} :
        seq_sessions < MaxSessions /\ create_session(title, metadata) /\ UNCHANGED << genVars, guiVars, chatVars, last_call >>

UpdateSession ==
    \E sid \in SessionIds, title \in Titles \cup {None}, metadata \in Metadatas \cup {None} :
        update_session(sid, title, metadata) /\ UNCHANGED << genVars, guiVars, chatVars, last_call >>

DeleteSession ==
    \E sid \in SessionIds : delete_session(sid) /\ UNCHANGED << genVars, guiVars, chatVars, last_call >>

AddMessageInsert ==
    \E sid \in SessionIds, role \in Roles, content \in Contents :
        seq_messages < MaxMessages /\ add_message_insert(sid, role, content) /\ UNCHANGED << genVars, guiVars, chatVars, last_call >>

AddMessageUpdate ==
    \E p \in pending : add_message_update(p) /\ UNCHANGED << genVars, guiVars, chatVars, last_call >>

DeleteMessage ==
    \E mid \in MessageIds : delete_message(mid) /\ UNCHANGED << genVars, guiVars, chatVars, last_call >>

ClearMessages ==
    \E sid \in SessionIds : clear_messages(sid) /\ UNCHANGED << genVars, guiVars, chatVars, last_call >>

ClockTick == Tick /\ UNCHANGED << genVars, guiVars, chatVars, last_call >>

NextStore ==
    \/ CreateSession
    \/ UpdateSession
    \/ DeleteSession
    \/ AddMessageInsert
    \/ AddMessageUpdate
    \/ DeleteMessage
    \/ ClearMessages
    \/ ClockTick

SpecStore == InitStore /\ [][NextStore]_vars

\* ------------------------------------------------------------------------
\* SpecLog: a ConversationManager driven by any caller, one call at a time.
\* last_call records each call with the state it was made in.
\* ------------------------------------------------------------------------
\* The texts callers pass as content.
LogTexts == UserTexts \cup { <<"O", "n", "c", "e">> }

InitLog ==
    /\ GenInit
    /\ stop_flag = FALSE
    /\ pc = [w \in Workers |-> "idle"]
    /\ GuiInit
    /\ StoreInit /\ ~foreign_keys
    /\ ChatInit
    /\ last_call = NoCall

Called(op, content) ==
    /\ last_call' = [op |-> op, content |-> content, prev |-> last_call.op,
                     before |-> [messages |-> messages,
                                 is_interrupted |-> is_interrupted,
                                 partial_response |-> partial_response]]
    /\ UNCHANGED << button, genVars, storeVars, chatVars >>

LogAddUser ==
    \E c \in LogTexts :
        /\ Len(messages) < MaxLog
        /\ add_user_message(c)
        /\ Called("add_user_message", c)

LogAddAssistant ==
    \E c \in LogTexts :
        /\ Len(messages) < MaxLog
        /\ add_assistant_message(c)
        /\ Called("add_assistant_message", c)

LogClear == clear_history /\ Called("clear_history", << >>)

LogMarkInterrupted ==
    \E c \in LogTexts : mark_interrupted(c) /\ Called("mark_interrupted", c)

LogContinue ==
    /\ Len(messages) < MaxLog
    /\ continue_conversation
    /\ Called("continue_conversation", << >>)

NextLog ==
    \/ LogAddUser
    \/ LogAddAssistant
    \/ LogClear
    \/ LogMarkInterrupted
    \/ LogContinue

SpecLog == InitLog /\ [][NextLog]_vars

\* ------------------------------------------------------------------------
\* Claims about one generate_streaming call (checked under SpecGen)
\* ------------------------------------------------------------------------
Finished(w) == pc[w] \in {"returned", "raised"}

\* p is a prefix of s.
IsPrefix(p, s) == Len(p) <= Len(s) /\ SubSeq(s, 1, Len(p)) = p

\* An exception was raised during call w: the except clause ran.
ExceptionRaised(w) ==
    \E i \in 1..Len(log[w]) : log[w][i] = CompleteEvent(ErrorText, TRUE)

\* C1: every generate_streaming call invokes complete_callback exactly once
\* before it ends, on every path (natural end, stop(), an empty stream, an
\* exception while preparing, while consuming, or from either callback).
C1_CompleteExactlyOnce ==
    \A w \in Workers : Finished(w) => Len(Completions(w)) = 1

\* C2 as claimed: stop() comes after exactly N increments were forwarded and
\* the stream then yields a further one: complete_callback receives the exact
\* concatenation of the first N increments and True, and increment N+1 is
\* never forwarded.
C2_StopGivesExactConcatenation ==
    \A w \in Workers :
        (stop_at[w] # -1 /\ Len(stream[w]) > stop_at[w] /\ Finished(w))
        => /\ Completions(w)[1] =
                CompleteEvent(Concat(SubSeq(stream[w], 1, stop_at[w])), TRUE)
           /\ Forwarded(w) = SubSeq(stream[w], 1, stop_at[w])

\* C2 as amended: in the same case complete_callback receives the text
\* extracted from the concatenation of the first N increments (what follows
\* the last "[/INST]", stripped of surrounding whitespace) and True, and
\* increment N+1 is never forwarded.
C2_StopGivesExtractedPrefix ==
    \A w \in Workers :
        (stop_at[w] # -1 /\ Len(stream[w]) > stop_at[w])
        => /\ Forwarded(w) = SubSeq(stream[w], 1, stop_at[w])
           /\ Completions(w) # << >> =>
                Completions(w)[1] =
                  CompleteEvent(Extract(Concat(SubSeq(stream[w], 1, stop_at[w]))), TRUE)

\* C2 witness: a call that was stopped after two forwarded increments, with a
\* third one still to come, has invoked complete_callback.
C2_Witness ==
    \E w \in Workers :
        /\ stop_at[w] = 2 /\ Len(stream[w]) > 2
        /\ exit_cause[w] = "break"
        /\ Completions(w) # << >>

\* C3: token_callback receives a prefix of the produced increments, in the
\* order produced, and no token_callback invocation follows a
\* complete_callback invocation of the same call.
C3_OrderedThenComplete ==
    \A w \in Workers :
        /\ IsPrefix(Forwarded(w), stream[w])
        /\ \A i, j \in 1..Len(log[w]) :
              (log[w][i].kind = "complete" /\ log[w][j].kind = "token") => j < i

\* C3 witness: a call that forwarded two different increments and then
\* completed.
C3_Witness ==
    \E w \in Workers :
        /\ Len(Forwarded(w)) >= 2
        /\ Forwarded(w)[1] # Forwarded(w)[2]
        /\ Completions(w) # << >>

\* r is the text s with leading and trailing whitespace removed.
IsStripOf(r, s) ==
    \E a \in 0..Len(s) :
        /\ a + Len(r) <= Len(s)
        /\ SubSeq(s, a + 1, a + Len(r)) = r
        /\ \A i \in 1..Len(s) : (i <= a \/ i > a + Len(r)) => s[i] \in Whitespace
        /\ r # << >> => (r[1] \notin Whitespace /\ r[Len(r)] \notin Whitespace)

\* r is what remains of s after the last "[/INST]" (all of s when there is
\* none), stripped.
IsExtractionOf(r, s) ==
    \E k \in 0..Len(s) :
        LET tail == SubSeq(s, k + 1, Len(s))
        IN  /\ MarkerPositions(tail) = {}
            /\ \/ k = 0 /\ MarkerPositions(s) = {}
               \/ k >= Len(Marker) /\ SubSeq(s, k - Len(Marker) + 1, k) = Marker
            /\ IsStripOf(r, tail)

\* The stream of call w ended naturally, no stop() came during the call and
\* no exception was raised before complete_callback was first invoked.
NaturalEnd(w) ==
    /\ exit_cause[w] = "end"
    /\ ~stop_called[w]
    /\ Completions(w) # << >>
    /\ Completions(w)[1].text # ErrorText

\* C4 as claimed: at a natural end without stop(), complete_callback receives
\* exactly the concatenation of the forwarded increments, and False.
C4_NaturalEndGivesExactConcatenation ==
    \A w \in Workers :
        NaturalEnd(w) =>
            Completions(w)[1] = CompleteEvent(Concat(Forwarded(w)), FALSE)

\* C4 as amended: at a natural end without stop(), every produced increment
\* was forwarded and complete_callback receives, with False, the text
\* extracted from their concatenation: what follows the last "[/INST]",
\* stripped of surrounding whitespace.
C4_NaturalEndGivesExtractedText ==
    \A w \in Workers :
        NaturalEnd(w) =>
            /\ Forwarded(w) = stream[w]
            /\ Completions(w)[1].stopped = FALSE
            /\ IsExtractionOf(Completions(w)[1].text, Concat(Forwarded(w)))

\* C4 witness: a call ended naturally after forwarding two increments, and
\* the text handed to complete_callback is not their concatenation.
C4_Witness ==
    \E w \in Workers :
        /\ NaturalEnd(w)
        /\ Len(Forwarded(w)) = 2
        /\ Completions(w)[1].text # Concat(Forwarded(w))


\* The complete_callback invocation the except clause makes.
ErrorEvent == CompleteEvent(ErrorText, TRUE)

\* Call w ended without its loop having been left by the end of the stream
\* or by the break: an exception was raised while preparing or consuming.
FailedBeforeLoopEnd(w) == Finished(w) /\ exit_cause[w] = "none"

\* C14: a call in which an exception was raised while preparing or consuming
\* the stream invokes complete_callback once, with the error text and True,
\* as its last callback (no token_callback follows); nothing leaves
\* generate_streaming as an exception but what that complete_callback
\* invocation itself raises.
C14_ExceptionsReported ==
    \A w \in Workers :
        /\ FailedBeforeLoopEnd(w) =>
              /\ Completions(w) = << ErrorEvent >>
              /\ log[w][Len(log[w])] = ErrorEvent
        /\ pc[w] = "raised" =>
              /\ log[w] # << >>
              /\ log[w][Len(log[w])] = ErrorEvent

\* C14 witness: token_callback raised after an increment was forwarded, and
\* the call returned normally after reporting the error.
C14_Witness ==
    \E w \in Workers :
        /\ pc[w] = "returned"
        /\ exit_cause[w] = "none"
        /\ Forwarded(w) # << >>
        /\ Completions(w) = << ErrorEvent >>

\* C16 as claimed: generate_streaming returns without waiting for the
\* stream: no callback is invoked while the call is still in flight.
C16_CallbacksAfterReturn ==
    \A w \in Workers : InFlight(w) => log[w] = << >>

\* C16 as amended: generate_streaming is synchronous: every callback is
\* invoked while the call is in flight, and the call returns or raises only
\* once complete_callback has been invoked.
C16_ReturnsAfterCallbacks ==
    [][ \A w \in Workers :
            /\ log'[w] # log[w] => InFlight(w)
            /\ (InFlight(w) /\ ~InFlight(w)') => Completions(w)' # << >>
      ]_vars

\* C16 witness: a call has returned with two increments forwarded and the
\* completion delivered.
C16_Witness ==
    \E w \in Workers :
        /\ pc[w] = "returned"
        /\ Len(Forwarded(w)) = 2
        /\ exit_cause[w] = "end"
        /\ Len(Completions(w)) = 1

\* ------------------------------------------------------------------------
\* Claims about ChatbotGUI (checked under SpecGUI)
\* ------------------------------------------------------------------------
\* The for loop of call w is running.
InLoop(w) == pc[w] \in {"loop_get", "loop_check", "loop_cb"}

\* C5: once stop() was called for a generation turn in flight, the turn ends
\* with was_stopped = True, and a turn that was waiting for its next
\* increment when stop() came forwards no further increment, in every
\* interleaving of the UI thread and the worker threads.
C5_StopAlwaysTakesEffect ==
    \A w \in Workers :
        /\ (stop_called[w] /\ Finished(w)) => Completions(w)[1].stopped = TRUE
        /\ stop_at[w] # -1 => Len(Forwarded(w)) <= stop_at[w]

\* C6: at most one consumption loop of the controller is active at any time.
C6_SingleFlight ==
    Cardinality({ w \in Workers : InLoop(w) }) <= 1

\* ----------------------------------------------------- claims on SpecStore
\* The message row an add_message call inserted, while it is still stored.
InsertedBy(p) ==
    { i \in 1..Len(db_messages) : db_messages[i].id = p.lastrowid }

\* The add_message call p inserted the most recent message of its session.
InsertedLatest(p) ==
    /\ InsertedBy(p) # {}
    /\ \A i \in 1..Len(db_messages) :
           db_messages[i].session_id = p.session_id => db_messages[i].id <= p.lastrowid

\* C7: when add_message returns for the most recent message of an existing
\* session, the session's updated_at equals that message's timestamp, and no
\* step of the store decreases a session's updated_at.
C7_UpdatedAtEqualsLastMessage ==
    [][ /\ \A p \in pending :
              ( /\ p \notin pending'
                /\ p.session_id \in DOMAIN db_sessions'
                /\ InsertedLatest(p) )
              => \A i \in InsertedBy(p) :
                     db_sessions'[p.session_id].updated_at = db_messages[i].timestamp
        /\ \A sid \in DOMAIN db_sessions \cap DOMAIN db_sessions' :
              db_sessions'[sid].updated_at >= db_sessions[sid].updated_at
      ]_vars

\* C8: no committed state holds a message of an existing session that is
\* newer than the session's updated_at.
C8_AddMessageAtomic ==
    \A i \in 1..Len(db_messages) :
        db_messages[i].session_id \in DOMAIN db_sessions
        => db_messages[i].timestamp <= db_sessions[db_messages[i].session_id].updated_at

\* C9: a step that deletes a session leaves the store without any message
\* of that session.
C9_DeleteSessionRemovesMessages ==
    [][ \A sid \in DOMAIN db_sessions :
            sid \notin DOMAIN db_sessions'
            => \A i \in 1..Len(db_messages') : db_messages'[i].session_id # sid
      ]_vars

\* C10: every stored message belongs to a session that exists.
C10_NoOrphanMessages ==
    \A i \in 1..Len(db_messages) :
        db_messages[i].session_id \in DOMAIN db_sessions

\* ------------------------------------------------------------------------
\* Claims about one turn of ChatbotGUI (checked under SpecTurn)
\* ------------------------------------------------------------------------
\* Call w leaves generate_streaming normally in this step, having been
\* cancelled: its loop was left by the break.
CancelledTurnCompletes(w) ==
    /\ pc[w] = "complete"
    /\ pc'[w] = "returned"
    /\ exit_cause[w] = "break"

\* C12 as claimed: when a turn cancelled after the increments t1..tN is
\* completed, the log is interrupted, its partial_response is the
\* concatenation t1..tN and its messages are unchanged.
C12_InterruptedKeepsConcatenation ==
    [][ \A w \in Workers :
            CancelledTurnCompletes(w) =>
                /\ is_interrupted'
                /\ partial_response' = Concat(Forwarded(w))
                /\ messages' = messages
      ]_vars

\* C12 as amended: in the same case the log is interrupted, its
\* partial_response is the text extracted from the concatenation t1..tN (what
\* follows the last "[/INST]", stripped of surrounding whitespace) and its
\* messages are unchanged.
C12_InterruptedKeepsExtractedPartial ==
    [][ \A w \in Workers :
            CancelledTurnCompletes(w) =>
                /\ is_interrupted'
                /\ IsExtractionOf(partial_response', Concat(Forwarded(w)))
                /\ messages' = messages
      ]_vars

\* C12 witness: a turn cancelled after a forwarded increment has completed,
\* and the log is interrupted with a partial_response that differs from the
\* concatenation of what was forwarded.
C12_Witness ==
    \E w \in Workers :
        /\ pc[w] = "returned"
        /\ exit_cause[w] = "break"
        /\ Forwarded(w) # << >>
        /\ is_interrupted
        /\ partial_response = Completions(w)[1].text
        /\ partial_response # Concat(Forwarded(w))

\* ------------------------------------------------------------------------
\* Claims about generate_response (checked under SpecGradio)
\* ------------------------------------------------------------------------
\* The (role, content) pairs of a sequence of message rows.
RoleContent(rows) ==
    [i \in 1..Len(rows) |-> Message(rows[i].role, rows[i].content)]

\* The generate_response call is over: it returned or raised.
CallOver == call.pc \in {"returned", "propagated"}

\* C11: after a turn that was cancelled before its stream ended, neither the
\* message log nor the current session holds an assistant message.
C11_CancelledTurnPersistsNoAssistant ==
    (CallOver /\ call.cancelled) =>
        /\ \A i \in 1..Len(messages) : messages[i].role # "assistant"
        /\ \A i \in 1..Len(db_messages) :
               db_messages[i].session_id = current_session_id
               => db_messages[i].role # "assistant"

\* The turn ran to its final yield without cancellation, with persistence on
\* and a current session.
TurnCompletedPersistent ==
    /\ call.pc = "returned"
    /\ call.outcome = "complete"
    /\ ~call.cancelled
    /\ call.save_to_db
    /\ current_session_id # NoSession

\* C13: a non-empty message submitted with persistence on and a current
\* session, whose generation ends without cancellation, leaves in the
\* session (which held nothing before) exactly the user message followed by
\* one assistant message holding the concatenation of all streamed
\* increments, and that is what get_messages returns.
C13_TurnPersistsUserThenAssistant ==
    TurnCompletedPersistent =>
        RoleContent(get_messages(current_session_id)) =
            << Message("user", call.message),
               Message("assistant", Concat(call.stream)) >>

\* C13 witness: such a turn has streamed two increments and returned.
C13_Witness ==
    /\ TurnCompletedPersistent
    /\ Len(call.stream) = 2
    /\ Len(call.yields) = 3
    /\ get_message_count(current_session_id) = 2

\* C15: once the generate_response call is over, is_generating is False.
C15_NoDanglingGenerating ==
    CallOver => is_generating = FALSE

\* ------------------------------------------------------------------------
\* Claims about the ConversationManager (checked under SpecLog)
\* ------------------------------------------------------------------------
\* C17: each add_user_message / add_assistant_message call appends exactly
\* one message, with the role of the call and the given content, after the
\* messages that were there (so get_history is the calls in call order), it
\* raises get_message_count by one, and get_message_count is always the
\* length of get_history.
C17_AppendsInCallOrder ==
    /\ message_count = Len(get_history)
    /\ last_call.op = "add_user_message" =>
         /\ get_history = Append(last_call.before.messages,
                                 Message("user", last_call.content))
         /\ message_count = Len(last_call.before.messages) + 1
    /\ last_call.op = "add_assistant_message" =>
         /\ get_history = Append(last_call.before.messages,
                                 Message("assistant", last_call.content))
         /\ message_count = Len(last_call.before.messages) + 1

\* C17 witness: an assistant message was appended right after a user message
\* to a log that already held a message.
C17_Witness ==
    /\ last_call.op = "add_assistant_message"
    /\ last_call.prev = "add_user_message"
    /\ Len(last_call.before.messages) = 2

\* C18: after add_user_message the log is not interrupted and holds no
\* partial response, whatever the state before.
C18_UserMessageClearsInterruption ==
    last_call.op = "add_user_message" =>
        (~is_interrupted /\ partial_response = << >>)

\* C19: after clear_history the log has no messages, is not interrupted and
\* holds no partial response; a second clear_history in a row changes nothing.
C19_ClearResetsAndIsIdempotent ==
    last_call.op = "clear_history" =>
        /\ messages = << >>
        /\ is_interrupted = FALSE
        /\ partial_response = << >>
        /\ last_call.prev = "clear_history" =>
             /\ messages = last_call.before.messages
             /\ is_interrupted = last_call.before.is_interrupted
             /\ partial_response = last_call.before.partial_response

\* C19 witness: clear_history was called on an interrupted log with messages.
C19_Witness ==
    /\ last_call.op = "clear_history"
    /\ last_call.before.messages # << >>
    /\ last_call.before.is_interrupted

\* C20: continue_conversation on an interrupted log appends exactly the
\* continuation request as a user message after the earlier messages and
\* clears the flag; on a log that is not interrupted it changes nothing; the
\* second of two calls in a row appends nothing.
C20_ContinueAppendsOnce ==
    last_call.op = "continue_conversation" =>
        /\ IF last_call.before.is_interrupted
           THEN /\ messages = Append(last_call.before.messages,
                                     Message("user", ContinuePrompt))
                /\ is_interrupted = FALSE
           ELSE /\ messages = last_call.before.messages
                /\ is_interrupted = last_call.before.is_interrupted
        /\ partial_response = last_call.before.partial_response
        /\ last_call.prev = "continue_conversation" =>
             messages = last_call.before.messages

\* C20 witness: continue_conversation was called on an interrupted log that
\* held a message.
C20_Witness ==
    /\ last_call.op = "continue_conversation"
    /\ last_call.before.is_interrupted
    /\ last_call.before.messages # << >>

ManagerSessionIds == 1..MaxRows

\* session_manager.py 164-194: add_message from INSERT to return, the two
\* statements one after the other.  Where the foreign key is enforced an
\* unknown session_id makes the INSERT raise.
add_message(session_id, role, content) ==
    /\ IF foreign_keys /\ session_id \notin DOMAIN db_sessions
       THEN UNCHANGED << db_messages, seq_messages, db_sessions >>
       ELSE LET id == NextRowId(seq_messages)
            IN  /\ db_messages' =
                     Append(db_messages, MessageRow(id, session_id, role, content, clock))
                /\ seq_messages' = id
                /\ db_sessions' =
                     [i \in DOMAIN db_sessions |->
                        IF i = session_id
                        THEN [db_sessions[i] EXCEPT !.updated_at = clock]
                        ELSE db_sessions[i]]
    /\ UNCHANGED << foreign_keys, seq_sessions, clock, pending >>

\* session_manager.py 110-111, 118: what update_session returns.
update_session_result(title, metadata) == ~(title = None /\ metadata = None)

\* What a call gave back: a value of some kind, None, or an exception.
Gave(kind, value) == [kind |-> kind, value |-> value]

\* ORDER BY s.updated_at DESC (session_manager.py 75, 151) over the sessions
\* `ids`, which GROUP BY s.id reads in id order: the latest updated first,
\* sessions of one second in id order.
RECURSIVE OrderByUpdatedDesc(_)
OrderByUpdatedDesc(ids) ==
    IF ids = {}
    THEN << >>
    ELSE LET first == CHOOSE i \in ids :
                        \A j \in ids :
                            \/ db_sessions[i].updated_at > db_sessions[j].updated_at
                            \/ /\ db_sessions[i].updated_at = db_sessions[j].updated_at
                               /\ i <= j
         IN  << first >> \o OrderByUpdatedDesc(ids \ {first})

\* LIMIT ? OFFSET ? with limit >= 0.
LimitOffset(rows, limit, offset) ==
    SubSeq(rows, offset + 1,
           IF offset + limit < Len(rows) THEN offset + limit ELSE Len(rows))

\* A row of list_sessions / search_sessions: s.* and message_count.
ListedRow(id, count) ==
    [id |-> id, title |-> db_sessions[id].title,
     updated_at |-> db_sessions[id].updated_at, message_count |-> count]

\* list_sessions with INNER JOIN in place of LEFT JOIN.
list_sessions_inner_join(limit, offset) ==
    LET page == LimitOffset(OrderByUpdatedDesc(
                    { i \in DOMAIN db_sessions : get_message_count(i) > 0 }),
                    limit, offset)
    IN  [k \in 1..Len(page) |-> ListedRow(page[k], get_message_count(page[k]))]

\* session_manager.py 59-84: list_sessions; COUNT(m.id) over the LEFT JOIN
\* counts the messages of the session, 0 when it has none.
list_sessions(limit, offset) ==
    LET page == LimitOffset(OrderByUpdatedDesc(DOMAIN db_sessions), limit, offset)
    IN  [k \in 1..Len(page) |-> ListedRow(page[k], get_message_count(page[k]))]

\* The characters of the titles and contents of the model.
Chars(text) ==
    CASE text = "Demo" -> <<"D", "e", "m", "o">>
      [] text = "Hello" -> <<"H", "e", "l", "l", "o">>
      [] text = DefaultTitle -> <<"C", "o", "n", "v", "e", "r", "s", "a", "t", "i", "o", "n">>

\* SQLite's LIKE: % stands for any run of characters, _ for any one
\* character, and ASCII letters match whatever their case.
RECURSIVE Like(_, _)
Like(pattern, s) ==
    LET Lower(c) == CASE c = "D" -> "d" [] c = "H" -> "h" [] c = "C" -> "c"
                      [] OTHER -> c
    IN  IF pattern = << >>
        THEN s = << >>
        ELSE IF Head(pattern) = "%"
        THEN Like(Tail(pattern), s) \/ (s # << >> /\ Like(pattern, Tail(s)))
        ELSE /\ s # << >>
             /\ Head(pattern) = "_" \/ Lower(Head(pattern)) = Lower(Head(s))
             /\ Like(Tail(pattern), Tail(s))

\* session_manager.py 132-160: search_sessions.  The WHERE clause filters the
\* joined rows (one per message, one with NULLs for a session without
\* messages) before GROUP BY, so message_count counts the rows that passed.
search_sessions(query, limit) ==
    LET search_pattern == << "%" >> \o query \o << "%" >>
        TitleHit(i) == Like(search_pattern, Chars(db_sessions[i].title))
        Hits(i) == { k \in 1..Len(db_messages) :
                       /\ db_messages[k].session_id = i
                       /\ TitleHit(i) \/ Like(search_pattern, Chars(db_messages[k].content)) }
        found == { i \in DOMAIN db_sessions : TitleHit(i) \/ Hits(i) # {} }
        page == LimitOffset(OrderByUpdatedDesc(found), limit, 0)
    IN  [k \in 1..Len(page) |-> ListedRow(page[k], Cardinality(Hits(page[k])))]

\* export_session_json without the test of lines 277-278.
export_session_json_unchecked(session_id) ==
    Gave("export", [session |-> get_session(session_id),
                    messages |-> get_messages(session_id)])

\* session_manager.py 267-286: export_session_json ("exported_at" is the wall
\* clock's and left out).
export_session_json(session_id) ==
    IF session_id \notin DOMAIN db_sessions
    THEN Gave("none", None)
    ELSE Gave("export", [session |-> get_session(session_id),
                         messages |-> get_messages(session_id)])

\* session_manager.py 288-314: export_session_markdown: the title, the
\* number of messages, and for each message its role (capitalised), its
\* timestamp and its content.
export_session_markdown(session_id) ==
    IF session_id \notin DOMAIN db_sessions
    THEN Gave("none", None)
    ELSE LET msgs == get_messages(session_id)
         IN  Gave("export",
                  << db_sessions[session_id].title, Len(msgs),
                     [k \in 1..Len(msgs) |->
                        << IF msgs[k].role = "user" THEN "User" ELSE "Assistant",
                           msgs[k].timestamp, msgs[k].content >>] >>)

\* No call has been observed yet.
Unobserved == last_call.op = "none"

\* The call is the observed one or not; the ids create_session returned are
\* kept either way.
Did(op, args, existed, result) ==
    LET returned == IF op = "create_session"
                    THEN Append(last_call.returned, result.value)
                    ELSE last_call.returned
    IN  \E observed \in BOOLEAN :
            last_call' = IF observed
                         THEN [op |-> op, args |-> args, existed |-> existed,
                               result |-> result, returned |-> returned]
                         ELSE [last_call EXCEPT !.returned = returned]

InitManager ==
    /\ StoreInit
    /\ GenInit
    /\ stop_flag = FALSE
    /\ pc = [w \in Workers |-> "idle"]
    /\ GuiInit
    /\ ChatInit
    /\ last_call = [op |-> "none", args |-> << >>, existed |-> FALSE,
                    result |-> Gave("none", None), returned |-> << >>]

\* session_manager.py 24-43: returns cursor.lastrowid.
MgrCreateSession ==
    \E title \in Titles \cup {None}, metadata \in Metadatas \cup {None} :
        /\ Unobserved
        /\ seq_sessions + seq_messages < MaxRows
        /\ create_session(title, metadata)
        /\ Did("create_session", << title, metadata >>, FALSE,
               Gave("id", CHOOSE id \in DOMAIN db_sessions' : id \notin DOMAIN db_sessions))
        /\ UNCHANGED << genVars, guiVars, chatVars >>

\* session_manager.py 86-118
MgrUpdateSession ==
    \E sid \in ManagerSessionIds, title \in Titles \cup {None},
       metadata \in Metadatas \cup {None} :
        /\ Unobserved
        /\ update_session(sid, title, metadata)
        /\ Did("update_session", << sid, title, metadata >>,
               sid \in DOMAIN db_sessions,
               Gave("bool", update_session_result(title, metadata)))
        /\ UNCHANGED << genVars, guiVars, chatVars >>

\* session_manager.py 120-130: returns True.
MgrDeleteSession ==
    \E sid \in ManagerSessionIds :
        /\ Unobserved
        /\ delete_session(sid)
        /\ Did("delete_session", << sid >>, sid \in DOMAIN db_sessions, Gave("bool", TRUE))
        /\ UNCHANGED << genVars, guiVars, chatVars >>

\* add_message with the other role and a content that differs from the
\* user's, so that the messages of a session differ in what they match.
MgrAddReply ==
    \E sid \in ManagerSessionIds :
        /\ Unobserved
        /\ seq_sessions + seq_messages < MaxRows
        /\ add_message(sid, "assistant", "Demo")
        /\ Did("add_message", << sid, "assistant", "Demo" >>, sid \in DOMAIN db_sessions,
               IF foreign_keys /\ sid \notin DOMAIN db_sessions
               THEN Gave("raised", "IntegrityError")
               ELSE Gave("id", NextRowId(seq_messages)))
        /\ UNCHANGED << genVars, guiVars, chatVars >>

\* session_manager.py 164-194: returns cursor.lastrowid, or the INSERT
\* raises.
MgrAddMessage ==
    \E sid \in ManagerSessionIds, role \in Roles, content \in Contents :
        /\ Unobserved
        /\ seq_sessions + seq_messages < MaxRows
        /\ add_message(sid, role, content)
        /\ Did("add_message", << sid, role, content >>, sid \in DOMAIN db_sessions,
               IF foreign_keys /\ sid \notin DOMAIN db_sessions
               THEN Gave("raised", "IntegrityError")
               ELSE Gave("id", NextRowId(seq_messages)))
        /\ UNCHANGED << genVars, guiVars, chatVars >>

MgrTick == Unobserved /\ Tick /\ UNCHANGED << genVars, guiVars, chatVars, last_call >>

\* The search strings the caller passes: a part of a content, and a part of
\* a title with one character replaced by an underscore.
Queries == { <<"e", "l", "l">>, <<"D", "_", "m">> }

\* A query is observed: it reads the store and changes nothing.
Asked(op, args, existed, result) ==
    /\ Unobserved
    /\ last_call' = [op |-> op, args |-> args, existed |-> existed,
                     result |-> result, returned |-> last_call.returned]
    /\ UNCHANGED storeVars
    /\ UNCHANGED << genVars, guiVars, chatVars >>

MgrListSessions ==
    \E limit \in 1..2, offset \in 0..1 :
        Asked("list_sessions", << limit, offset >>, FALSE,
              Gave("rows", list_sessions(limit, offset)))

MgrSearchSessions ==
    \E query \in Queries, limit \in 1..2 :
        Asked("search_sessions", << query, limit >>, FALSE,
              Gave("rows", search_sessions(query, limit)))

MgrExport ==
    \E sid \in ManagerSessionIds :
        \/ Asked("export_session_json", << sid >>, sid \in DOMAIN db_sessions,
                 export_session_json(sid))
        \/ Asked("export_session_markdown", << sid >>, sid \in DOMAIN db_sessions,
                 export_session_markdown(sid))

NextManager ==
    \/ MgrCreateSession
    \/ MgrUpdateSession
    \/ MgrDeleteSession
    \/ MgrAddMessage
    \/ MgrTick

SpecManager == InitManager /\ [][NextManager]_vars

\* SpecQuery: the queries of SessionManager, each observed on a store that
\* create_session, add_message and delete_session have made.
NextQuery ==
    \/ MgrCreateSession
    \/ MgrDeleteSession
    \/ MgrAddMessage
    \/ MgrTick
    \/ MgrListSessions
    \/ MgrSearchSessions
    \/ MgrExport

SpecQuery == InitManager /\ [][NextQuery]_vars

\* C28: update_session is a partial update.  With neither field supplied it
\* returns False and leaves the whole store as it was, updated_at included;
\* with only the title supplied the metadata stays, with only the metadata
\* supplied the title stays; other sessions and all messages stay in every
\* case.
C28_UpdateSessionIsPartial ==
    [][(Unobserved /\ last_call'.op = "update_session") =>
         LET sid == last_call'.args[1]
             title == last_call'.args[2]
             metadata == last_call'.args[3]
         IN  /\ db_messages' = db_messages
             /\ DOMAIN db_sessions' = DOMAIN db_sessions
             /\ \A i \in DOMAIN db_sessions :
                  i # sid => db_sessions'[i] = db_sessions[i]
             /\ (title = None /\ metadata = None) =>
                  /\ last_call'.result = Gave("bool", FALSE)
                  /\ db_sessions' = db_sessions
             /\ sid \in DOMAIN db_sessions =>
                  /\ title = None => db_sessions'[sid].title = db_sessions[sid].title
                  /\ metadata = None =>
                       db_sessions'[sid].metadata = db_sessions[sid].metadata
             /\ UNCHANGED << seq_sessions, seq_messages >>]_vars

\* update_session(sid, title) on a session that carries metadata, in a store
\* with a message.
C28_Witness ==
    /\ last_call.op = "update_session"
    /\ last_call.existed
    /\ last_call.args[2] # None
    /\ last_call.args[3] = None
    /\ db_sessions[last_call.args[1]].metadata \in Metadatas
    /\ db_sessions[last_call.args[1]].updated_at > 0
    /\ db_messages # << >>

\* C29: every id create_session returns differs from every id it returned
\* before, also when the session of the earlier id has been deleted.
C29_SessionIdsNeverReassigned ==
    \A i, j \in 1..Len(last_call.returned) :
        i # j => last_call.returned[i] # last_call.returned[j]

\* create_session after the only session there was has been deleted.
C29_Witness ==
    /\ last_call.op = "create_session"
    /\ Len(last_call.returned) = 2
    /\ DOMAIN db_sessions = { last_call.result.value }

\* C30: update_session with a field supplied, delete_session and add_message
\* given a session id that does not exist report a failure (False, None or an
\* exception), not a success value.
C30_UnknownSessionIsRejected ==
    ( /\ last_call.op \in {"update_session", "delete_session", "add_message"}
      /\ ~last_call.existed
      /\ last_call.op = "update_session" =>
            (last_call.args[2] # None \/ last_call.args[3] # None) )
    => \/ last_call.result.kind \in {"raised", "none"}
       \/ last_call.result.kind = "bool" /\ ~last_call.result.value

\* The number of persisted messages whose session_id is `id`.
PersistedCount(id) ==
    Cardinality({ k \in 1..Len(db_messages) : db_messages[k].session_id = id })

\* `rows` is in descending order of updated_at and names no session twice.
LatestFirst(rows) ==
    /\ \A k \in 1..(Len(rows) - 1) : rows[k].updated_at >= rows[k + 1].updated_at
    /\ \A k, l \in 1..Len(rows) : k # l => rows[k].id # rows[l].id
    /\ \A k \in 1..Len(rows) :
          /\ rows[k].id \in DOMAIN db_sessions
          /\ rows[k].updated_at = db_sessions[rows[k].id].updated_at

\* C24: list_sessions(limit, offset) returns the sessions at positions
\* offset .. offset+limit-1 of the sessions ordered by updated_at descending:
\* `offset` sessions that are not older than the first one returned are left
\* out before it, every other session left out is not newer than the last
\* one returned; each returned session carries the number of its persisted
\* messages, and a session without messages is listed like any other.
C24_ListSessionsOrderedPagedCounted ==
    last_call.op = "list_sessions" =>
        LET limit == last_call.args[1]
            offset == last_call.args[2]
            rows == last_call.result.value
            n == Cardinality(DOMAIN db_sessions)
            outside == DOMAIN db_sessions \ { rows[k].id : k \in 1..Len(rows) }
        IN  /\ LatestFirst(rows)
            /\ Len(rows) = IF n <= offset THEN 0
                           ELSE IF n - offset < limit THEN n - offset ELSE limit
            /\ \A k \in 1..Len(rows) : rows[k].message_count = PersistedCount(rows[k].id)
            /\ rows # << >> =>
                 \E skipped \in SUBSET outside :
                     /\ Cardinality(skipped) = offset
                     /\ \A i \in skipped :
                          db_sessions[i].updated_at >= rows[1].updated_at
                     /\ \A i \in outside \ skipped :
                          db_sessions[i].updated_at <= rows[Len(rows)].updated_at

\* list_sessions(1, 1) returns a session without messages that was updated
\* before the session it skipped.
C24_Witness ==
    /\ last_call.op = "list_sessions"
    /\ last_call.args = << 1, 1 >>
    /\ Len(last_call.result.value) = 1
    /\ last_call.result.value[1].message_count = 0
    /\ \E i \in DOMAIN db_sessions :
          /\ db_sessions[i].updated_at > last_call.result.value[1].updated_at
          /\ PersistedCount(i) > 0

\* `query` occurs in `s` as a substring.
Contains(query, s) ==
    \E k \in 0..(Len(s) - Len(query)) : SubSeq(s, k + 1, k + Len(query)) = query

\* C25: search_sessions(query, limit) returns, latest first and each once,
\* sessions whose title or one of whose messages contains query as a
\* substring, and all of them when they are fewer than limit.
C25_SearchIsSubstringMatch ==
    last_call.op = "search_sessions" =>
        LET query == last_call.args[1]
            limit == last_call.args[2]
            rows == last_call.result.value
            matching == { i \in DOMAIN db_sessions :
                            \/ Contains(query, Chars(db_sessions[i].title))
                            \/ \E k \in 1..Len(db_messages) :
                                  /\ db_messages[k].session_id = i
                                  /\ Contains(query, Chars(db_messages[k].content)) }
        IN  /\ LatestFirst(rows)
            /\ Len(rows) <= limit
            /\ \A k \in 1..Len(rows) : rows[k].id \in matching
            /\ Len(rows) < limit => \A i \in matching : \E k \in 1..Len(rows) : rows[k].id = i

\* A search that finds a session by the content of a message only.
C25_Witness ==
    /\ last_call.op = "search_sessions"
    /\ last_call.args[1] = <<"e", "l", "l">>
    /\ last_call.result.value # << >>

\* C26: export_session_json(id) and export_session_markdown(id) change
\* nothing in the store and give None exactly when there is no session id.
C26_ExportOfUnknownSessionIsNone ==
    [][(Unobserved /\ last_call'.op \in {"export_session_json", "export_session_markdown"}) =>
         /\ UNCHANGED storeVars
         /\ last_call'.result.kind \in {"none", "export"}
         /\ last_call'.result.kind = "none" <=>
                last_call'.args[1] \notin DOMAIN db_sessions]_vars

\* An export of a session that was created and has been deleted.
C26_Witness ==
    /\ last_call.op \in {"export_session_json", "export_session_markdown"}
    /\ last_call.result.kind = "none"
    /\ last_call.args[1] \in { last_call.returned[k] : k \in 1..Len(last_call.returned) }

\* ------------------------------------------------------------------------
\* SpecRoundTrip: the session PersistentGradioChat.__init__ created is
\* written, exported with export_session_json, and rebuilt: a new session is
\* created and add_message is called for each exported message in order.
\* call keeps how far the rebuilding is.
\* ------------------------------------------------------------------------
\* Before the export: add_message on an existing session.
RtAddMessage ==
    \E sid \in DOMAIN db_sessions, role \in {"user", "assistant"}, content \in Contents :
        /\ call.pc = "idle"
        /\ seq_messages < MaxMessages
        /\ add_message(sid, role, content)
        /\ UNCHANGED << genVars, guiVars, is_generating, current_session_id, call, last_call >>

\* session_manager.py 267-286: export_session_json of an existing session;
\* its "messages" are what is rebuilt.
RtExport ==
    \E sid \in DOMAIN db_sessions :
        /\ call.pc = "idle"
        /\ call' = [pc |-> "create", source |-> sid,
                    exported |-> export_session_json(sid).value.messages,
                    target |-> NoSession, next |-> 1]
        /\ UNCHANGED << genVars, guiVars, storeVars, is_generating, current_session_id, last_call >>

\* session_manager.py 24-43: the session to rebuild into.
RtCreate ==
    /\ call.pc = "create"
    /\ create_session(None, None)
    /\ call' = [call EXCEPT !.pc = IF call.exported = << >> THEN "done" ELSE "add",
                            !.target = NextRowId(seq_sessions)]
    /\ UNCHANGED << genVars, guiVars, is_generating, current_session_id, last_call >>

\* session_manager.py 164-194: add_message(target, role, content) for the
\* next exported message.
RtCopy ==
    /\ call.pc = "add"
    /\ add_message(call.target, call.exported[call.next].role,
                   call.exported[call.next].content)
    /\ call' = [call EXCEPT !.pc = IF call.next = Len(call.exported) THEN "done" ELSE "add",
                            !.next = call.next + 1]
    /\ UNCHANGED << genVars, guiVars, is_generating, current_session_id, last_call >>

NextRoundTrip ==
    \/ RtAddMessage
    \/ RtExport
    \/ RtCreate
    \/ RtCopy
    \/ GrTick

SpecRoundTrip == InitGradio /\ [][NextRoundTrip]_vars

C22_BlankSubmitIsNoOp ==
    [][(call.pc = "idle" /\ call'.pc # "idle" /\ Strip(call'.message) = << >>) =>
         /\ UNCHANGED << messages, is_interrupted, partial_response >>
         /\ UNCHANGED storeVars
         /\ UNCHANGED << is_generating, current_session_id >>
         /\ UNCHANGED genVars
         /\ call'.pc = "returned"
         /\ call'.stream = << >>]_vars

\* A blank was submitted with the model loaded.
C22_Witness ==
    /\ call.pc = "returned"
    /\ call.message = << " " >>
    /\ call.outcome = "empty"

\* ------------------------------------------------------------------------
\* SpecSwitch: PersistentGradioChat between turns: turns that run to their
\* end without Stop or failure (so not where add_message would raise), the
\* New Session button and the session dropdown.  No handler runs while a
\* turn is streaming.
\* ------------------------------------------------------------------------
\* load_session without the clear_history of line 69.
load_session_merges(session_id) ==
    /\ messages' = messages \o get_messages(session_id)
    /\ UNCHANGED << is_interrupted, partial_response >>
    /\ current_session_id' = session_id
    /\ UNCHANGED << storeVars, is_generating, call >>

\* app_gradio_persistent.py 55-88: load_session: get_messages, clear_history,
\* every row appended to conversation.messages as it is, then
\* current_session_id = session_id, whether or not the session exists.
load_session(session_id) ==
    /\ messages' = get_messages(session_id)
    /\ is_interrupted' = FALSE
    /\ partial_response' = << >>
    /\ current_session_id' = session_id
    /\ UNCHANGED << storeVars, is_generating, call >>

\* app_gradio_persistent.py 90-102: create_new_session.
create_new_session(title) ==
    /\ clear_history
    /\ create_session(title, None)
    /\ current_session_id' = NextRowId(seq_sessions)
    /\ UNCHANGED << is_generating, call >>

\* app_gradio_persistent.py 136-152, reached from submit_message (396-401)
\* with save_to_db=True: a non-blank message is logged and persisted.
SwSubmit ==
    \E m \in UserTexts :
        /\ call.pc = "idle"
        /\ seq_messages + 2 <= 2 * MaxMessages
        /\ ~(foreign_keys /\ current_session_id \notin DOMAIN db_sessions)
        /\ is_generating' = TRUE
        /\ add_user_message(m)
        /\ IF current_session_id # NoSession
           THEN add_message(current_session_id, "user", m)
           ELSE UNCHANGED storeVars
        /\ call' = [IdleCall EXCEPT !.pc = "streaming", !.message = m, !.save_to_db = TRUE]
        /\ last_call' = NoCall
        /\ UNCHANGED << genVars, button, current_session_id >>

\* app_gradio_persistent.py 160-226 when the stream ends by itself and
\* nothing raises: the response is logged and persisted, is_generating reset.
SwAnswer ==
    \E full \in GuiIncrements :
        /\ call.pc = "streaming"
        /\ add_assistant_message(full)
        /\ IF current_session_id # NoSession
           THEN add_message(current_session_id, "assistant", full)
           ELSE UNCHANGED storeVars
        /\ is_generating' = FALSE
        /\ call' = IdleCall
        /\ last_call' = NoCall
        /\ UNCHANGED << genVars, button, current_session_id >>

\* app_gradio_persistent.py 436-448: the session dropdown, any id.
SwLoadSession ==
    \E sid \in 1..(MaxSessions + 1) :
        /\ call.pc = "idle"
        /\ load_session(sid)
        /\ last_call' = [op |-> "load_session", content |-> sid,
                         prev |-> current_session_id,
                         before |-> [messages |-> messages,
                                     is_interrupted |-> is_interrupted,
                                     partial_response |-> partial_response]]
        /\ UNCHANGED << genVars, button >>

\* app_gradio_persistent.py 456-458: the New Session button.
SwCreateNewSession ==
    /\ call.pc = "idle"
    /\ seq_sessions < MaxSessions + 1
    /\ create_new_session(None)
    /\ last_call' = NoCall
    /\ UNCHANGED << genVars, button >>

NextSwitch ==
    \/ SwSubmit
    \/ SwAnswer
    \/ SwLoadSession
    \/ SwCreateNewSession
    \/ GrTick

SpecSwitch == InitGradio /\ [][NextSwitch]_vars

\* C21: after load_session(id) for an existing session the message log has
\* the (role, content) pairs of get_messages(id) in the same order and so
\* nothing of the conversation that was active before, the interruption
\* state is cleared, and current_session_id is id.
C21_LoadSessionReplacesLog ==
    (last_call.op = "load_session" /\ last_call.content \in DOMAIN db_sessions) =>
        /\ RoleContent(messages) = RoleContent(get_messages(last_call.content))
        /\ Len(messages) = get_message_count(last_call.content)
        /\ \A k \in 1..Len(messages) : messages[k].session_id = last_call.content
        /\ ~is_interrupted
        /\ partial_response = << >>
        /\ current_session_id = last_call.content

\* A session with a turn is loaded while the log holds the turn of another
\* session.
C21_Witness ==
    /\ last_call.op = "load_session"
    /\ last_call.content \in DOMAIN db_sessions
    /\ last_call.prev # last_call.content
    /\ last_call.before.messages # << >>
    /\ Len(messages) = 2

\* ------------------------------------------------------------------------
\* Claims about persistence failures of a turn (checked under SpecGradio)
\* ------------------------------------------------------------------------
\* add_message raises while the user message of the turn is persisted.
UserSaveRaises ==
    /\ call.pc \in {"save_user", "save_user_update"}
    /\ call'.pc = "propagated"

\* add_message raises while the assistant message of the turn is persisted.
AssistantSaveRaises ==
    /\ call.pc \in {"save_assistant", "save_assistant_update"}
    /\ call'.pc = "except"

\* C31: a persistence failure never rolls back the message log: when
\* add_message raises for the user or the assistant message of a turn, the
\* message appended to the log for that turn is still its last entry, and
\* neither that step nor any step of the call after it changes the log; no
\* step of a turn removes or alters an entry.
C31_FailedSaveKeepsLog ==
    [][ /\ IsPrefix(messages, messages')
        /\ UserSaveRaises =>
              /\ messages' = messages
              /\ messages # << >>
              /\ messages[Len(messages)] = Message("user", call.message)
        /\ AssistantSaveRaises =>
              /\ messages' = messages
              /\ Len(messages) >= 2
              /\ messages[Len(messages)] = Message("assistant", call.full_response)
              /\ messages[Len(messages) - 1] = Message("user", call.message)
        /\ call.pc \in {"propagated", "except", "finally", "returned"} =>
              messages' = messages ]_vars

\* C31 witness: the save of the assistant message raised after the INSERT,
\* the call has returned through its except clause, and the log holds the
\* user message and the streamed response.
C31_Witness ==
    /\ call.pc = "returned"
    /\ call.outcome = "error"
    /\ call.full_response # << >>
    /\ messages = << Message("user", call.message),
                     Message("assistant", call.full_response) >>
    /\ \E i \in 1..Len(db_messages) : db_messages[i].role = "assistant"

\* ------------------------------------------------------------------------
\* SpecWrapper: one LLMWrapper.generate call (src/core/llm_wrapper.py
\* 92-217) on a wrapper constructed with any backend selection.  The
\* fractional options are counted in tenths (temperature 0.7 is 7, top_p 0.9
\* is 9); what litellm.completion, apply_chat_template and model.generate
\* do with their arguments is outside the repository, so each may return or
\* raise.
\* ------------------------------------------------------------------------
OptionNames == {"temperature", "max_new_tokens", "top_p", "top_k"}

\* The values a caller or the configuration gives an option: one inside and
\* one outside the range the specification recognises.
OptionValues(k) ==
    CASE k = "temperature"    -> {0, 7}
      [] k = "max_new_tokens" -> {0, 512}
      [] k = "top_p"          -> {9, 11}
      [] k = "top_k"          -> {-1, 50}

\* A dict of options: any subset of the names, each with one of its values.
Options ==
    { f \in UNION { [S -> {-1, 0, 7, 9, 11, 50, 512}] : S \in SUBSET OptionNames } :
          \A k \in DOMAIN f : f[k] \in OptionValues(k) }

\* config.get("generation", {}): no section, or one that sets a temperature.
GenConfigs == { f \in Options : DOMAIN f \subseteq {"temperature"} }

\* llm_wrapper.py 107: {**gen_config, **kwargs}
Merge(gen_config, kwargs) ==
    [k \in DOMAIN gen_config \cup DOMAIN kwargs |->
        IF k \in DOMAIN kwargs THEN kwargs[k] ELSE gen_config[k]]

\* params.get(key, default)
Get(params, key, default) ==
    IF key \in DOMAIN params THEN params[key] ELSE default

\* llm_wrapper.py 134-136, 183-187, 206-210: the option values generate
\* works with, defaults filled in.
EffectiveOptions(params) ==
    [temperature    |-> Get(params, "temperature", 7),
     max_new_tokens |-> Get(params, "max_new_tokens", 512),
     top_p          |-> Get(params, "top_p", 9),
     top_k          |-> Get(params, "top_k", 50)]

\* llm_wrapper.py 15-34: the wrapper after construction, no call made.
InitWrapper ==
    /\ GenInit
    /\ stop_flag = FALSE
    /\ pc = [w \in Workers |-> "idle"]
    /\ GuiInit
    /\ StoreInit /\ ~foreign_keys
    /\ is_generating = FALSE
    /\ current_session_id = NoSession
    /\ last_call = NoCall
    /\ \E u \in BOOLEAN, b \in {"local", "openai"}, g \in GenConfigs :
           call = [pc |-> "idle", use_litellm |-> u, backend |-> b,
                   gen_config |-> g, params |-> g, stream |-> FALSE,
                   completion_calls |-> 0, generate_calls |-> 0,
                   threads_started |-> 0, outcome |-> "none"]

WrapperFrame ==
    UNCHANGED << genVars, guiVars, storeVars, is_generating,
                 current_session_id, last_call >>

\* llm_wrapper.py 105-112: generate merges the options and dispatches on the
\* backend; it tests nothing about the options.
generate ==
    \E kwargs \in Options, streaming \in BOOLEAN :
        /\ call.pc = "idle"
        /\ call' = [call EXCEPT !.params = Merge(call.gen_config, kwargs),
                                !.stream = streaming,
                                !.pc = IF call.use_litellm /\ call.backend # "local"
                                       THEN "litellm" ELSE "local"]
        /\ WrapperFrame

\* llm_wrapper.py 127-151: _generate_litellm calls litellm.completion with
\* the options as they are.
generate_litellm ==
    \E raises \in BOOLEAN :
        /\ call.pc = "litellm"
        /\ call' = [call EXCEPT !.completion_calls = @ + 1,
                                !.pc = "over",
                                !.outcome = IF raises THEN "backend_error"
                                            ELSE IF call.stream THEN "iterator"
                                            ELSE "text"]
        /\ WrapperFrame

\* llm_wrapper.py 166-196: _generate_local, streaming: the chat template is
\* applied, then the generation thread is started with the options as they
\* are and the streamer is returned.
generate_local_stream ==
    \E template_raises \in BOOLEAN :
        /\ call.pc = "local"
        /\ call.stream
        /\ call' = IF template_raises
                   THEN [call EXCEPT !.pc = "over", !.outcome = "backend_error"]
                   ELSE [call EXCEPT !.threads_started = @ + 1, !.pc = "over",
                                     !.outcome = "iterator"]
        /\ WrapperFrame

\* llm_wrapper.py 199-217: _generate_local, not streaming: model.generate is
\* called in the caller's thread with the options as they are.
generate_local_sync ==
    \E template_raises \in BOOLEAN, raises \in BOOLEAN :
        /\ call.pc = "local"
        /\ ~call.stream
        /\ call' = IF template_raises
                   THEN [call EXCEPT !.pc = "over", !.outcome = "backend_error"]
                   ELSE [call EXCEPT !.generate_calls = @ + 1, !.pc = "over",
                                     !.outcome = IF raises THEN "backend_error"
                                                 ELSE "text"]
        /\ WrapperFrame

NextWrapper ==
    \/ generate
    \/ generate_litellm
    \/ generate_local_stream
    \/ generate_local_sync

SpecWrapper == InitWrapper /\ [][NextWrapper]_vars

\* The options are outside the recognised ranges: temperature <= 0,
\* max_new_tokens <= 0, top_p outside (0, 1] or top_k < 0.
InvalidOptions(params) ==
    LET o == EffectiveOptions(params)
    IN  \/ o.temperature <= 0
        \/ o.max_new_tokens <= 0
        \/ o.top_p <= 0
        \/ o.top_p > 10
        \/ o.top_k < 0

\* C32: a generate call with options outside the recognised ranges is
\* rejected with a validation error and has no side effects: it makes no
\* backend call, local or remote, and starts no generation thread.
C32_InvalidOptionsRejected ==
    (call.pc # "idle" /\ InvalidOptions(call.params)) =>
        /\ call.completion_calls = 0
        /\ call.generate_calls = 0
        /\ call.threads_started = 0
        /\ call.pc = "over" => call.outcome = "validation_error"

\* C32 case: generate was called with a temperature of 0 and the call is
\* over.
C32_Witness ==
    /\ call.pc = "over"
    /\ EffectiveOptions(call.params).temperature = 0

\* ------------------------------------------------------------------------
\* Claims about a stop() that comes late (checked under SpecGen)
\* ------------------------------------------------------------------------
\* C33: complete_callback is invoked with was_stopped = True only if the
\* loop was left early on the flag or an exception occurred: a response
\* whose stream ended after every increment was forwarded is not reported
\* as cancelled, whenever stop() came.
C33_LateStopIsNotCancellation ==
    \A w \in Workers :
        \A i \in 1..Len(Completions(w)) :
            (Completions(w)[i].stopped /\ Completions(w)[i] # ErrorEvent)
                => exit_cause[w] = "break"

\* C33 case: the stream ended with all its increments forwarded, and the
\* completion says the response was stopped.
C33_Witness ==
    \E w \in Workers :
        /\ exit_cause[w] = "end"
        /\ stream[w] # << >>
        /\ Forwarded(w) = stream[w]
        /\ Completions(w) # << >>
        /\ Completions(w)[1].stopped
        /\ Completions(w)[1] # ErrorEvent

\* ------------------------------------------------------------------------
\* Claims about Continue after Stop (checked under SpecGUI)
\* ------------------------------------------------------------------------
\* A step of _handle_continue: the Continue button is replaced by Stop and
\* the log is left alone or extended by the continuation request (a Send
\* appends the text of the entry instead).
ContinueStep ==
    /\ button = "continue"
    /\ button' = "stop"
    /\ \/ messages' = messages
       \/ messages' = Append(messages, Message("user", ContinuePrompt))

\* C34: whenever _handle_continue starts a generation, continue_conversation
\* finds is_interrupted set, so that the history the generation works on
\* ends with the continuation request.
C34_ContinueAppendsRequest ==
    [][ ContinueStep =>
            /\ is_interrupted
            /\ messages' # << >>
            /\ messages'[Len(messages')] = Message("user", ContinuePrompt) ]_vars

\* C34 case: Stop was pressed and the Continue button is shown while the
\* worker of the stopped turn has not yet called on_complete.
C34_Witness ==
    /\ button = "continue"
    /\ ~is_interrupted
    /\ \E w \in Workers : InFlight(w) /\ stop_called[w]
    /\ \E w \in Workers : pc[w] = "idle"

\* ------------------------------------------------------------------------
\* SpecSessions: the event handlers of PersistentGradioChat, each of which
\* Gradio runs in a thread of its own, so that the session handlers may run
\* while the generator of submit_message is suspended at a yield.  A turn is
\* taken in two steps, up to the first yield and from the end of the stream;
\* call.session is not a local of generate_response: it records the session
\* that was current when the turn's user message was persisted.
\* ------------------------------------------------------------------------
\* app_gradio_persistent.py 396-401 with 136-152: a non-blank message is
\* logged and persisted to the current session, then streaming starts.
submit_message ==
    \E m \in UserTexts :
        /\ call.pc = "idle"
        /\ seq_messages + 2 <= 2 * MaxMessages
        /\ ~(foreign_keys /\ current_session_id \notin DOMAIN db_sessions)
        /\ is_generating' = TRUE
        /\ add_user_message(m)
        /\ IF current_session_id # NoSession
           THEN add_message(current_session_id, "user", m)
           ELSE UNCHANGED storeVars
        /\ call' = [pc |-> "streaming", message |-> m,
                    session |-> current_session_id]
        /\ last_call' = NoCall
        /\ UNCHANGED << genVars, button, current_session_id >>

\* app_gradio_persistent.py 205-226 when the stream has ended: the response
\* is logged, persisted to whatever session is current now (an add_message
\* that raises goes to the except clause), and is_generating is reset.
finish_response ==
    \E full \in GuiIncrements :
        /\ call.pc = "streaming"
        /\ add_assistant_message(full)
        /\ IF current_session_id # NoSession
           THEN add_message(current_session_id, "assistant", full)
           ELSE UNCHANGED storeVars
        /\ is_generating' = FALSE
        /\ call' = [call EXCEPT !.pc = "idle"]
        /\ last_call' = NoCall
        /\ UNCHANGED << genVars, button, current_session_id >>

\* app_gradio_persistent.py 437-448: the session dropdown; any id, as the
\* dropdown may list sessions that were deleted since its last refresh.
load_selected_session ==
    \E sid \in 1..(MaxSessions + 1) :
        /\ load_session(sid)
        /\ last_call' = [op |-> "load_session", content |-> sid,
                         prev |-> current_session_id,
                         before |-> [messages |-> messages,
                                     is_interrupted |-> is_interrupted,
                                     partial_response |-> partial_response]]
        /\ UNCHANGED << genVars, button >>

\* app_gradio_persistent.py 456-458: the New Session button.
new_session_click ==
    /\ seq_sessions < MaxSessions + 1
    /\ create_new_session(None)
    /\ last_call' = NoCall
    /\ UNCHANGED << genVars, button >>

\* app_gradio_persistent.py 461-463: clear_chat.
clear_chat ==
    /\ clear_history
    /\ last_call' = NoCall
    /\ UNCHANGED << genVars, button, storeVars, chatVars >>

\* app_gradio_persistent.py 467-471: delete_current_session deletes the
\* current session (session_manager.py 129) and creates a new one (99-100).
delete_current_session ==
    /\ seq_sessions < MaxSessions + 1
    /\ IF current_session_id # NoSession
       THEN LET id == NextRowId(seq_sessions)
                row == SessionRow(DefaultTitle, EmptyMetadata, clock)
            IN  /\ db_sessions' =
                     [i \in (DOMAIN db_sessions \ {current_session_id}) \cup {id} |->
                        IF i = id THEN row ELSE db_sessions[i]]
                /\ seq_sessions' = id
                /\ db_messages' =
                     IF foreign_keys /\ current_session_id \in DOMAIN db_sessions
                     THEN SelectSeq(db_messages,
                                    LAMBDA m : m.session_id # current_session_id)
                     ELSE db_messages
                /\ clear_history
                /\ current_session_id' = id
       ELSE UNCHANGED << db_sessions, seq_sessions, db_messages, messages,
                         is_interrupted, partial_response, current_session_id >>
    /\ last_call' = NoCall
    /\ UNCHANGED << foreign_keys, seq_messages, clock, pending, is_generating,
                    call, genVars, button >>

\* app_gradio_persistent.py 22-34: __init__ has created the first session;
\* no turn was submitted.
InitSessions ==
    /\ GenInit
    /\ stop_flag = FALSE
    /\ pc = [w \in Workers |-> "idle"]
    /\ GuiInit
    /\ last_call = NoCall
    /\ foreign_keys \in BOOLEAN
    /\ db_sessions = [i \in {1} |-> SessionRow(DefaultTitle, EmptyMetadata, 0)]
    /\ db_messages = << >>
    /\ seq_sessions = 1
    /\ seq_messages = 0
    /\ clock = 0
    /\ pending = {}
    /\ is_generating = FALSE
    /\ current_session_id = 1
    /\ call = [pc |-> "idle", message |-> << >>, session |-> NoSession]

NextSessions ==
    \/ submit_message
    \/ finish_response
    \/ load_selected_session
    \/ new_session_click
    \/ clear_chat
    \/ delete_current_session

SpecSessions == InitSessions /\ [][NextSessions]_vars

\* The step in which a turn logs and persists its assistant message.
AnswerStep == call.pc = "streaming" /\ call'.pc = "idle"

\* C35: the assistant message of a turn is persisted to, and appended to the
\* log of, the session that received the turn's user message, whichever
\* session handlers ran while the turn was streaming: when the response is
\* saved the current session is still that session, and the row written
\* carries its id.
C35_AssistantGoesToTurnSession ==
    [][ AnswerStep =>
            /\ current_session_id = call.session
            /\ Len(db_messages') > Len(db_messages) =>
                   db_messages'[Len(db_messages')].session_id = call.session ]_vars

\* C35 case: the turn's user message went to one session and its assistant
\* message was persisted to another.
C35_Witness ==
    /\ call.pc = "idle"
    /\ Len(db_messages) >= 2
    /\ db_messages[Len(db_messages)].role = "assistant"
    /\ db_messages[Len(db_messages) - 1].role = "user"
    /\ db_messages[Len(db_messages)].session_id
           # db_messages[Len(db_messages) - 1].session_id

\* C36: current_session_id always identifies a session that exists in the
\* store, and a load_session of a session that does not exist leaves
\* current_session_id and the message log as they were.
C36_CurrentSessionExists ==
    /\ current_session_id \in DOMAIN db_sessions
    /\ (last_call.op = "load_session" /\ last_call.content \notin DOMAIN db_sessions)
           => /\ current_session_id = last_call.prev
              /\ messages = last_call.before.messages

\* C36 case: a session that does not exist was loaded while the log held a
\* turn.
C36_Witness ==
    /\ last_call.op = "load_session"
    /\ last_call.content \notin DOMAIN db_sessions
    /\ last_call.before.messages # << >>

\* ------------------------------------------------------------------------
\* Claims about the history given to the backend (checked under SpecGUI)
\* ------------------------------------------------------------------------
\* The roles alternate user, assistant, user, ..., first and last a user.
Alternating(history) ==
    /\ Len(history) % 2 = 1
    /\ \A i \in 1..Len(history) :
           history[i].role = IF i % 2 = 1 THEN "user" ELSE "assistant"

\* A worker applies the chat template to the history (generator.py 36).
PrepareStep == \E w \in Workers : pc[w] = "prepare" /\ pc'[w] # "prepare"

\* C37: the history handed to the generation backend always alternates
\* user, assistant, user, ..., starting and ending with a user message.
C37_HistoryAlternates ==
    [][ PrepareStep => Alternating(get_history) ]_vars

\* C37 case: a turn was stopped and its worker has returned; Continue has
\* started a second worker, which has taken the history: two user messages
\* in a row.
C37_Witness ==
    /\ pc[1] = "returned"
    /\ pc[2] = "loop_get"
    /\ Len(messages) = 2
    /\ messages[1].role = "user"
    /\ messages[2] = Message("user", ContinuePrompt)

\* ------------------------------------------------------------------------
\* Claims about the partial response (checked under SpecTurn)
\* ------------------------------------------------------------------------
\* C38: whenever the log is interrupted, partial_response is the text of the
\* increments forwarded to on_token in the turn's generation call (as
\* generate_streaming extracts it), never an error message.
C38_PartialResponseIsForwardedText ==
    is_interrupted =>
        /\ partial_response # ErrorText
        /\ IsExtractionOf(partial_response, Concat(Forwarded(1)))

\* C38 case: the generation call ended through its except clause and the
\* log is interrupted.
C38_Witness ==
    /\ is_interrupted
    /\ pc[1] = "returned"
    /\ Completions(1) = << ErrorEvent >>
    /\ partial_response = ErrorText

\* ------------------------------------------------------------------------
\* SpecSearch: search_sessions on stores whose messages differ in content
\* ------------------------------------------------------------------------
NextSearch ==
    \/ MgrCreateSession
    \/ MgrAddMessage
    \/ MgrAddReply
    \/ MgrSearchSessions

SpecSearch == InitManager /\ [][NextSearch]_vars

\* C39: every session search_sessions returns carries the number of all the
\* messages persisted for it, the value list_sessions reports, however the
\* session matched.
C39_SearchCountsAllMessages ==
    last_call.op = "search_sessions" =>
        LET rows == last_call.result.value
            listed == list_sessions(50, 0)
        IN  \A k \in 1..Len(rows) :
                /\ rows[k].message_count = PersistedCount(rows[k].id)
                /\ \E j \in 1..Len(listed) :
                       /\ listed[j].id = rows[k].id
                       /\ listed[j].message_count = rows[k].message_count

\* C39 case: a session found through the content of one of its messages has
\* another message that does not match the query.
C39_Witness ==
    /\ last_call.op = "search_sessions"
    /\ last_call.args[1] = <<"e", "l", "l">>
    /\ Len(last_call.result.value) = 1
    /\ PersistedCount(last_call.result.value[1].id) = 2
    /\ \E k \in 1..Len(db_messages) : db_messages[k].content = "Demo"

\* ------------------------------------------------------------------------
\* SpecPage: get_messages with limit and offset
\* ------------------------------------------------------------------------
\* session_manager.py 196-225: get_messages(session_id, limit, offset).  The
\* optional limit is << >> for None and << n >> for n.  LIMIT ? OFFSET ? is
\* added to the query only when a limit is given; SQLite takes a negative
\* LIMIT as no limit.
get_messages_paged(session_id, limit, offset) ==
    LET rows == get_messages(session_id)
    IN  IF limit = << >>
        THEN rows
        ELSE IF limit[1] < 0
        THEN SubSeq(rows, offset + 1, Len(rows))
        ELSE LimitOffset(rows, limit[1], offset)

MgrGetMessages ==
    \E sid \in ManagerSessionIds, limit \in { << >>, <<0>>, <<1>>, <<2>> },
       offset \in 0..2 :
        Asked("get_messages", << sid, limit, offset >>, sid \in DOMAIN db_sessions,
              Gave("rows", get_messages_paged(sid, limit, offset)))

NextPage ==
    \/ MgrCreateSession
    \/ MgrAddMessage
    \/ MgrTick
    \/ MgrGetMessages

SpecPage == InitManager /\ [][NextPage]_vars

\* C40: get_messages(session_id, limit, offset) returns the messages at
\* positions offset .. offset+limit-1 of the session's ordered messages when
\* a limit is given, and all messages from position offset onward when the
\* limit is None, for every limit and every offset >= 0.
C40_GetMessagesPaginates ==
    last_call.op = "get_messages" =>
        LET all == get_messages(last_call.args[1])
            limit == last_call.args[2]
            offset == last_call.args[3]
            last == IF limit = << >> \/ offset + limit[1] > Len(all)
                    THEN Len(all) ELSE offset + limit[1]
        IN  last_call.result.value = SubSeq(all, offset + 1, last)

\* C40 case: a session of two messages was read with no limit and offset 1.
C40_Witness ==
    /\ last_call.op = "get_messages"
    /\ last_call.args[2] = << >>
    /\ last_call.args[3] = 1
    /\ Len(get_messages(last_call.args[1])) = 2

========================================================================
